---- MODULE Spec2Model ----
(***************************************************************************)
(* The game-tracking control loop of FirepowerApp/backend: a delayed-task  *)
(* broker delivers game:watch_updates tasks, the per-game handler runs one *)
(* check iteration (window check, play-by-play fetch, stats fetch and      *)
(* notification, reschedule decision) and enqueues its own successor.      *)
(*                                                                         *)
(* Time is a discrete clock `now`.  An RFC3339 string is modelled by the   *)
(* pair (does it parse, which instant), a Go pointer by (nil, value), a    *)
(* JSON body by a TLA+ record whose fields are the keys present.           *)
(***************************************************************************)
EXTENDS Integers, Sequences, FiniteSets, TLC

----------------------------------------------------------------------------
(* Bounds of the model *)

\* last instant of the clock
MaxTime == 7
\* largest executionEnd instant among the initial payloads
MaxEnd == 1
\* largest cfg.MessageIntervalSeconds tried (in clock ticks)
MaxInterval == 2
\* number of tasks the broker can ever hold an id for
MaxTasks == 4
\* number of duplicate deliveries the broker makes in one behaviour
MaxDup == 1
\* number of clock ticks one handler invocation may span
MaxHandlerTicks == 1
\* number of injected faults (a malformed play-by-play body, a refused enqueue)
MaxFaults == 2
\* first retry delay of the broker, in clock ticks
RetryBase == 1
\* the timeout of sendToNotifier's context, in clock ticks
NotifyTimeout == 2
\* largest goal count a stats snapshot reports
MaxGoals == 1
\* largest number of games the schedule lists for the target date
MaxGames == 2
\* largest cfg.GameMaxDurationHours tried (in clock ticks)
MaxDuration == 1
\* number of runs the daily scheduler makes in one behaviour
MaxRuns == 2
\* largest number of clock ticks between two runs of the daily scheduler
MaxRunGap == 1

(* Program constants *)

\* asynq.Config.MaxRetry
MaxRetry == 3

\* FileScheduleFetcher: the first game of a file starts 60 s after the fetch,
\* each further game 10 s later; the clock of the scheduler ticks every 10 s
FileStartLead == 6
FileStartStep == 1
\* the default of cfg.MessageIntervalSeconds
DefaultMessageInterval == 60
\* the width of int and of time.Duration, 64 bits in the program, and
\* time.Second in the unit of time.Duration, 10^9 in the program: the model
\* keeps narrower integers and a coarser unit, in which the default interval
\* fits and the largest int, taken as a number of seconds, does not
IntBits == 20
Second == 100

----------------------------------------------------------------------------
(* Values *)

GameIDs == {"2024030411"}

\* typeDescKey values the upstream can report as the last play; "" is the
\* zero models.Play (no play)
PlayTypes == {"hit", "goal", "game-end"}

\* a *string: nil, or a string that is an RFC3339 instant or is not one
NilStr == [nil |-> TRUE, rfc3339 |-> FALSE, instant |-> 0]
BadStr == [nil |-> FALSE, rfc3339 |-> FALSE, instant |-> 0]
TimeStr(t) == [nil |-> FALSE, rfc3339 |-> TRUE, instant |-> t]

\* a *bool
NilBool == [nil |-> TRUE, v |-> FALSE]
PtrBool(b) == [nil |-> FALSE, v |-> b]

\* a map[string]string: nil, or the entries it holds
NilData == [nil |-> TRUE, m |-> <<>>]
Data(m) == [nil |-> FALSE, m |-> m]

\* a string read as an instant: one that is no RFC3339 instant (the empty
\* string among them), or the RFC3339 form of instant t
NoTime == [rfc3339 |-> FALSE, instant |-> 0]
Time(t) == [rfc3339 |-> TRUE, instant |-> t]

\* models.Team, its three name maps stood for by CommonName
Team(id, names, abbrev) == [ID |-> id, CommonName |-> names, Abbrev |-> abbrev]
ZeroTeam == Team(0, NilData, "")

\* models.Game
Game(id, date, start, home, away) ==
  [ID |-> id, GameDate |-> date, StartTime |-> start, HomeTeam |-> home, AwayTeam |-> away]
ZeroGame == Game("", "", NoTime, ZeroTeam, ZeroTeam)

\* models.Payload; Payload(g, e, n) is the payload of a game of which only
\* the id is filled in
GamePayload(game, e, n) == [Game |-> game, ExecutionEnd |-> e, ShouldNotify |-> n]
Payload(g, e, n) == GamePayload([ZeroGame EXCEPT !.ID = g], e, n)

ExecutionEnds == {NilStr, BadStr} \cup {TimeStr(t) : t \in 0..MaxEnd}
ShouldNotifies == {NilBool, PtrBool(TRUE), PtrBool(FALSE)}
Payloads == {Payload(g, e, n) : g \in GameIDs, e \in ExecutionEnds, n \in ShouldNotifies}

\* time.Parse(time.RFC3339, s)
TimeParse(s) == [err |-> ~s.rfc3339, t |-> s.instant]

\* json.Marshal of a map[string]string: null for the nil map, else an object
MarshalMap(d) == IF d.nil THEN [kind |-> "null"] ELSE [kind |-> "object", members |-> d.m]

\* json.Marshal of a models.Team and of a models.Game: every field is written
MarshalTeam(t) == [id |-> t.ID, commonName |-> MarshalMap(t.CommonName), abbrev |-> t.Abbrev]
MarshalGame(g) ==
  [id |-> g.ID, gameDate |-> g.GameDate, startTimeUTC |-> g.StartTime,
   homeTeam |-> MarshalTeam(g.HomeTeam), awayTeam |-> MarshalTeam(g.AwayTeam)]

\* Marshal with should_notify left out when it is false, as omitempty does to a bool
Marshal_OmitFalse(p) ==
  LET base == [game |-> MarshalGame(p.Game)]
      withEnd == IF p.ExecutionEnd.nil THEN base
                 ELSE [k \in DOMAIN base \cup {"execution_end"} |->
                         IF k = "execution_end" THEN [rfc3339 |-> p.ExecutionEnd.rfc3339,
                                                     instant |-> p.ExecutionEnd.instant]
                         ELSE base[k]]
  IN  IF p.ShouldNotify.nil \/ ~p.ShouldNotify.v THEN withEnd
      ELSE [k \in DOMAIN withEnd \cup {"should_notify"} |->
              IF k = "should_notify" THEN p.ShouldNotify.v ELSE withEnd[k]]

\* json.Marshal(payload): execution_end and should_notify are omitempty
Marshal(p) ==
  LET base == [game |-> MarshalGame(p.Game)]
      withEnd == IF p.ExecutionEnd.nil THEN base
                 ELSE [k \in DOMAIN base \cup {"execution_end"} |->
                         IF k = "execution_end" THEN [rfc3339 |-> p.ExecutionEnd.rfc3339,
                                                     instant |-> p.ExecutionEnd.instant]
                         ELSE base[k]]
  IN  IF p.ShouldNotify.nil THEN withEnd
      ELSE [k \in DOMAIN withEnd \cup {"should_notify"} |->
              IF k = "should_notify" THEN p.ShouldNotify.v ELSE withEnd[k]]

\* a task body that is not JSON
InvalidJSON == [raw |-> "invalid-json"]

\* json.Unmarshal into a map[string]string: null leaves the map nil, an
\* object makes a map, empty or not
UnmarshalMap(j) == IF j.kind = "null" THEN NilData ELSE Data(j.members)

\* json.Unmarshal into a models.Team and a models.Game: a key that is not
\* there leaves the field at its zero value
UnmarshalTeam(j) ==
  Team(IF "id" \in DOMAIN j THEN j.id ELSE 0,
       IF "commonName" \in DOMAIN j THEN UnmarshalMap(j.commonName) ELSE NilData,
       IF "abbrev" \in DOMAIN j THEN j.abbrev ELSE "")
UnmarshalGame(j) ==
  Game(IF "id" \in DOMAIN j THEN j.id ELSE "",
       IF "gameDate" \in DOMAIN j THEN j.gameDate ELSE "",
       IF "startTimeUTC" \in DOMAIN j THEN j.startTimeUTC ELSE NoTime,
       IF "homeTeam" \in DOMAIN j THEN UnmarshalTeam(j.homeTeam) ELSE ZeroTeam,
       IF "awayTeam" \in DOMAIN j THEN UnmarshalTeam(j.awayTeam) ELSE ZeroTeam)

\* json.Unmarshal(body, &payload)
Unmarshal(b) ==
  IF "raw" \in DOMAIN b
  THEN [err |-> TRUE, payload |-> Payload("", NilStr, NilBool)]
  ELSE [err |-> FALSE,
        payload |-> GamePayload(IF "game" \in DOMAIN b THEN UnmarshalGame(b.game) ELSE ZeroGame,
                                IF "execution_end" \in DOMAIN b
                                THEN [nil |-> FALSE, rfc3339 |-> b.execution_end.rfc3339,
                                      instant |-> b.execution_end.instant]
                                ELSE NilStr,
                                IF "should_notify" \in DOMAIN b
                                THEN PtrBool(b.should_notify) ELSE NilBool)]

\* NewWatchGameUpdatesTask(payload): the body of the task it makes
NewWatchGameUpdatesTask(payload) == [body |-> Marshal(payload)]

\* ParseWatchGameUpdatesPayload(t)
ParseWatchGameUpdatesPayload(t) == Unmarshal(t.body)

----------------------------------------------------------------------------
(* Pure functions of internal/services *)

\* ShouldSkipExecution with the boundary instant counted as expired
ShouldSkipExecution_Inclusive(payload, t) ==
  IF ~payload.ExecutionEnd.nil
  THEN LET parsed == TimeParse(payload.ExecutionEnd)
       IN  IF parsed.err THEN [skip |-> TRUE, err |-> TRUE]
           ELSE IF t >= parsed.t THEN [skip |-> TRUE, err |-> FALSE]
           ELSE [skip |-> FALSE, err |-> FALSE]
  ELSE [skip |-> FALSE, err |-> FALSE]

\* ShouldSkipExecution with the parse error swallowed
ShouldSkipExecution_NoError(payload, t) ==
  IF ~payload.ExecutionEnd.nil
  THEN LET parsed == TimeParse(payload.ExecutionEnd)
       IN  IF parsed.err THEN [skip |-> TRUE, err |-> FALSE]
           ELSE IF t > parsed.t THEN [skip |-> TRUE, err |-> FALSE]
           ELSE [skip |-> FALSE, err |-> FALSE]
  ELSE [skip |-> FALSE, err |-> FALSE]

\* ShouldSkipExecution with an expired window reported as an error
ShouldSkipExecution_ExpiredError(payload, t) ==
  IF ~payload.ExecutionEnd.nil
  THEN LET parsed == TimeParse(payload.ExecutionEnd)
       IN  IF parsed.err THEN [skip |-> TRUE, err |-> TRUE]
           ELSE IF t > parsed.t THEN [skip |-> TRUE, err |-> TRUE]
           ELSE [skip |-> FALSE, err |-> FALSE]
  ELSE [skip |-> FALSE, err |-> FALSE]

\* services.ShouldSkipExecution(payload), with time.Now() = t
ShouldSkipExecution(payload, t) ==
  IF ~payload.ExecutionEnd.nil
  THEN LET parsed == TimeParse(payload.ExecutionEnd)
       IN  IF parsed.err THEN [skip |-> TRUE, err |-> TRUE]
           ELSE IF t > parsed.t THEN [skip |-> TRUE, err |-> FALSE]
           ELSE [skip |-> FALSE, err |-> FALSE]
  ELSE [skip |-> FALSE, err |-> FALSE]

\* services.ShouldReschedule(payload, lastPlay), with time.Now() = t
ShouldReschedule_NilStops(payload, lastPlay, t) ==
  LET parsed == TimeParse(payload.ExecutionEnd)
      byPlay == lastPlay.TypeDescKey # "game-end"
  IN  IF ~payload.ExecutionEnd.nil
      THEN IF parsed.err THEN byPlay
           ELSE IF t > parsed.t THEN FALSE
           ELSE TRUE
      ELSE FALSE

ShouldReschedule(payload, lastPlay, t) ==
  LET parsed == TimeParse(payload.ExecutionEnd)
      byPlay == lastPlay.TypeDescKey # "game-end"
  IN  IF ~payload.ExecutionEnd.nil
      THEN IF parsed.err THEN byPlay
           ELSE IF t > parsed.t THEN FALSE
           ELSE TRUE
      ELSE byPlay

\* recomputeTypes of GameProcessor.ProcessGameUpdate
recomputeTypes == {"blocked-shot", "missed-shot", "shot-on-goal", "goal", "game-end"}

\* recomputeTypes of the Cloud Tasks handler that does not use the game processor
legacyRecomputeTypes ==
  {"blocked-shot", "missed-shot", "shot-on-goal", "goal", "period-end", "game-end"}

\* the recompute set in force in a handler variant
RecomputeTypesOf(m) == IF m = "http-legacy" THEN legacyRecomputeTypes ELSE recomputeTypes

\* the responses the play-by-play server can give when its last play is k:
\* a transport error, a status other than 200, a body that is not JSON, an
\* empty plays array, or the plays up to k
Responses(k) ==
  {[kind |-> x, plays |-> <<>>] : x \in {"neterr", "non200", "malformed", "ok"}}
    \cup {[kind |-> "ok", plays |-> <<[TypeDescKey |-> k]>>]}

\* services.FetchPlayByPlay(gameID) on response r
FetchPlayByPlay(r) ==
  IF r.kind \in {"neterr", "non200"} THEN [panic |-> FALSE, lastPlay |-> [TypeDescKey |-> ""]]
  ELSE IF r.kind = "malformed" THEN [panic |-> TRUE, lastPlay |-> [TypeDescKey |-> ""]]
  ELSE IF Len(r.plays) = 0 THEN [panic |-> FALSE, lastPlay |-> [TypeDescKey |-> ""]]
  ELSE [panic |-> FALSE, lastPlay |-> r.plays[Len(r.plays)]]

\* an integer as an int or a time.Duration holds it: arithmetic wraps around
MaxInt == 2 ^ (IntBits - 1) - 1
WrapInt(x) ==
  LET m == x % (2 ^ IntBits)
  IN  IF m > MaxInt THEN m - 2 ^ IntBits ELSE m

\* fmt.Sscanf(val, "%d", &intVal)
Sscanf(val) == [err |-> ~val.int, intVal |-> IF val.int THEN val.n ELSE 0]

\* LoadConfig().MessageIntervalSeconds when MESSAGE_INTERVAL_SECONDS is env
MessageIntervalSeconds(env) ==
  IF env.set
  THEN LET scanned == Sscanf(env)
       IN  IF ~scanned.err /\ scanned.intVal > 0 THEN scanned.intVal ELSE DefaultMessageInterval
  ELSE DefaultMessageInterval

\* time.Duration(cfg.MessageIntervalSeconds) * time.Second, the delay
\* scheduleNextCheck asks the broker for
MessageInterval(seconds) == WrapInt(seconds * Second)

\* RetryDelayFunc of the asynq server: 30s, 1m, 2m, 4m, ... after the n-th failure
RetryDelayFunc(n) == RetryBase * (2 ^ n)

----------------------------------------------------------------------------
(* The stats data map, the shootout adjustment and the Discord message *)

\* the required data keys of the Discord notifier
GoalKeys == {"homeTeamGoals", "awayTeamGoals", "homeTeamShootOutGoals", "awayTeamShootOutGoals"}
XGKeys == {"homeTeamExpectedGoals", "awayTeamExpectedGoals"}
requiredDataKeys == XGKeys \cup GoalKeys

\* strconv.Itoa(n), for the goal counts of the model
Decimal == <<"0", "1", "2", "3", "4">>
Itoa(n) == Decimal[n + 1]

\* strconv.Atoi(s): a decimal numeral, with or without a sign, or an error
Atoi(s) ==
  IF \E n \in 0..(Len(Decimal) - 1) : Decimal[n + 1] = s
  THEN [err |-> FALSE, n |-> CHOOSE n \in 0..(Len(Decimal) - 1) : Decimal[n + 1] = s]
  ELSE IF s = "+1" THEN [err |-> FALSE, n |-> 1]
  ELSE [err |-> TRUE, n |-> 0]

\* the values a goal column can hold: a numeral, a signed numeral, or text
\* that is no integer
GoalStrs == {Itoa(n) : n \in 0..MaxGoals} \cup {"+1", "invalid"}

\* gameData[k] of Go: the value, or "" when the key is absent (or the map nil)
Get(d, k) == IF k \in DOMAIN d.m THEN d.m[k] ELSE ""
Has(d, k) == k \in DOMAIN d.m

\* the function f without the keys it maps to Absent
Absent == "<absent>"
Partial(f) == [k \in {x \in DOMAIN f : f[x] # Absent} |-> f[k]]

\* the goal columns, and the whole last row, a stats snapshot can carry
GoalMaps == {Partial(f) : f \in [GoalKeys -> GoalStrs \cup {Absent}]}
XGMaps == {Partial(f) : f \in [XGKeys -> {"1.5", Absent}]}
Merge(f, g) == [k \in DOMAIN f \cup DOMAIN g |-> IF k \in DOMAIN f THEN f[k] ELSE g[k]]
Snapshots == {Merge(f, g) : f \in GoalMaps, g \in XGMaps}

\* AdjustScoreForShootout with a tied shootout counted for the home team
AdjustScoreForShootout_HomeOnTie(gameData) ==
  LET homeScore == Atoi(Get(gameData, "homeTeamGoals"))
      awayScore == Atoi(Get(gameData, "awayTeamGoals"))
      homeSOGoals == Atoi(Get(gameData, "homeTeamShootOutGoals"))
      awaySOGoals == Atoi(Get(gameData, "awayTeamShootOutGoals"))
      home == IF homeSOGoals.n >= awaySOGoals.n THEN homeScore.n + 1 ELSE homeScore.n
      away == IF homeSOGoals.n >= awaySOGoals.n THEN awayScore.n
              ELSE IF awaySOGoals.n > homeSOGoals.n THEN awayScore.n + 1 ELSE awayScore.n
  IN  IF homeScore.err \/ awayScore.err \/ homeSOGoals.err \/ awaySOGoals.err
      THEN [err |-> TRUE, data |-> gameData]
      ELSE [err |-> FALSE,
            data |-> Data([k \in DOMAIN gameData.m \cup {"homeTeamGoals", "awayTeamGoals"} |->
                             IF k = "homeTeamGoals" THEN Itoa(home)
                             ELSE IF k = "awayTeamGoals" THEN Itoa(away)
                             ELSE gameData.m[k]])]

\* AdjustScoreForShootout with an unparseable shootout count read as 0
AdjustScoreForShootout_Lenient(gameData) ==
  LET homeScore == Atoi(Get(gameData, "homeTeamGoals"))
      awayScore == Atoi(Get(gameData, "awayTeamGoals"))
      homeSOGoals == Atoi(Get(gameData, "homeTeamShootOutGoals"))
      awaySOGoals == Atoi(Get(gameData, "awayTeamShootOutGoals"))
      home == IF homeSOGoals.n > awaySOGoals.n THEN homeScore.n + 1 ELSE homeScore.n
      away == IF homeSOGoals.n > awaySOGoals.n THEN awayScore.n
              ELSE IF awaySOGoals.n > homeSOGoals.n THEN awayScore.n + 1 ELSE awayScore.n
  IN  IF homeScore.err \/ awayScore.err
      THEN [err |-> TRUE, data |-> gameData]
      ELSE [err |-> FALSE,
            data |-> Data([k \in DOMAIN gameData.m \cup {"homeTeamGoals", "awayTeamGoals"} |->
                             IF k = "homeTeamGoals" THEN Itoa(home)
                             ELSE IF k = "awayTeamGoals" THEN Itoa(away)
                             ELSE gameData.m[k]])]

\* services.AdjustScoreForShootout(gameData): the error, and gameData afterwards
AdjustScoreForShootout(gameData) ==
  LET homeScore == Atoi(Get(gameData, "homeTeamGoals"))
      awayScore == Atoi(Get(gameData, "awayTeamGoals"))
      homeSOGoals == Atoi(Get(gameData, "homeTeamShootOutGoals"))
      awaySOGoals == Atoi(Get(gameData, "awayTeamShootOutGoals"))
      home == IF homeSOGoals.n > awaySOGoals.n THEN homeScore.n + 1 ELSE homeScore.n
      away == IF homeSOGoals.n > awaySOGoals.n THEN awayScore.n
              ELSE IF awaySOGoals.n > homeSOGoals.n THEN awayScore.n + 1 ELSE awayScore.n
  IN  IF homeScore.err \/ awayScore.err \/ homeSOGoals.err \/ awaySOGoals.err
      THEN [err |-> TRUE, data |-> gameData]
      ELSE [err |-> FALSE,
            data |-> Data([k \in DOMAIN gameData.m \cup {"homeTeamGoals", "awayTeamGoals"} |->
                             IF k = "homeTeamGoals" THEN Itoa(home)
                             ELSE IF k = "awayTeamGoals" THEN Itoa(away)
                             ELSE gameData.m[k]])]

\* DiscordNotifier.FormatMessage(req), as the lines of the message: the score
\* line, the expected-goals block, and the "Notification sent at" footer,
\* which is there whatever the data
FormatMessage(data) ==
  (IF "homeTeamGoals" \in DOMAIN data /\ "awayTeamGoals" \in DOMAIN data
   THEN << <<"score", data["homeTeamGoals"], data["awayTeamGoals"]>> >> ELSE <<>>)
  \o (IF "homeTeamExpectedGoals" \in DOMAIN data \/ "awayTeamExpectedGoals" \in DOMAIN data
      THEN << <<"xg">> >> ELSE <<>>)
  \o (IF "homeTeamExpectedGoals" \in DOMAIN data
      THEN << <<"xg-home", data["homeTeamExpectedGoals"]>> >> ELSE <<>>)
  \o (IF "awayTeamExpectedGoals" \in DOMAIN data
      THEN << <<"xg-away", data["awayTeamExpectedGoals"]>> >> ELSE <<>>)
  \o << <<"footer">> >>

\* Service.SendGameEventNotifications(game, gameData): the messages handed to
\* the notifiers, one per notifier, each built from the required keys that
\* gameData holds
SendGameEventNotifications(shouldNotify, notifiers, gameData) ==
  IF ~shouldNotify THEN <<>>
  ELSE [n \in 1..notifiers |->
          FormatMessage([k \in {x \in requiredDataKeys : Has(gameData, x)} |-> Get(gameData, k)])]

----------------------------------------------------------------------------
(* State *)

VARIABLES
  now,       \* the clock read by time.Now()
  mode,      \* "worker" (asynq/Redis) or "http" (Cloud Tasks)
  interval,  \* cfg.MessageIntervalSeconds
  feed,      \* typeDescKey of the upstream's last play
  stats,     \* the last row of the stats server's snapshot for the game
  discord,   \* whether DISCORD_BOT_TOKEN is configured (a notifier exists)
  schedule,  \* the schedule source of the daily scheduler: the upstream or a file
  sched,     \* the daily scheduler: its configuration and where its run stands
  queue,     \* tasks the broker holds for delivery (scheduled, pending, retry)
  inv,       \* handler invocations in flight
  archived,  \* tasks the broker gave up on
  nextId,    \* id of the next task created
  dups,      \* duplicate deliveries made so far
  children,  \* per task id, the successors enqueued by handlers of that task
  last,      \* the handler invocation that returned in the last step, if one did
  faults,    \* faults injected so far (a malformed body, a refused enqueue)
  probe,     \* the last direct application of a pure function
  sends      \* the goroutines of sendToNotifier started so far, where they are followed

vars == <<now, mode, interval, stats, discord, schedule, sched, feed, queue, inv, archived, nextId, dups, children, last, faults, probe, sends>>

NoPayload == Payload("", NilStr, NilBool)

\* a task in the broker: its body, the instant the producer enqueued it, the
\* instant it is due, and the number of retries made of it
Task(id, body, enq, at, n) ==
  [id |-> id, body |-> body, enqueuedAt |-> enq, deliverAt |-> at, retried |-> n]

NoTask == Task(-1, InvalidJSON, 0, 0, 0)

\* a handler invocation: the task delivered, which duplicate of the delivery
\* it is (0: the delivery itself), where the handler stands, and what it has
\* done so far
NoLast ==
  [task |-> NoTask, dup |-> 0, pc |-> "done", result |-> "none", fault |-> "none",
   payload |-> NoPayload, started |-> 0, windowAt |-> -1, skipped |-> FALSE,
   calls |-> <<>>, resp |-> "none", notified |-> 0, lastPlay |-> "", decidedAt |-> -1,
   decision |-> FALSE, enq |-> 0, retry |-> "none", fetchedAt |-> -1, statsErr |-> FALSE,
   adjust |-> "none", data |-> NilData, messages |-> <<>>]

NewInv(t, d, at) == [NoLast EXCEPT !.task = t, !.dup = d, !.pc = "fetch", !.started = at]

\* no goroutine, and none followed
NoSends == [follow |-> FALSE, g |-> {}]

\* the value of an environment variable: unset, or a string, of which
\* fmt.Sscanf("%d") reads the integer it starts with (whatever follows it),
\* or fails when it starts with none or with one too large for an int
Unset == [set |-> FALSE, int |-> FALSE, n |-> 0, rest |-> ""]
NoInt(rest) == [set |-> TRUE, int |-> FALSE, n |-> 0, rest |-> rest]
IntStr(n, rest) == [set |-> TRUE, int |-> TRUE, n |-> n, rest |-> rest]

NoProbe ==
  [fn |-> "none", payload |-> NoPayload, lastPlay |-> "", t |-> 0, out |-> FALSE, err |-> FALSE,
   data |-> NilData, outData |-> NilData, body |-> InvalidJSON, decoded |-> NoPayload,
               env |-> Unset, seconds |-> 0, delay |-> 0]

\* a body as the game-tracker scheduler's TaskPayload serializes it:
\* {"game_id": ..., "execution_end": ...}
LegacyBodies ==
  {[game_id |-> g, execution_end |-> [rfc3339 |-> TRUE, instant |-> MaxEnd]] : g \in GameIDs}

Bodies == {Marshal(p) : p \in Payloads} \cup LegacyBodies \cup {InvalidJSON}

\* a snapshot of a game tied after overtime that the home team won in the shootout
TiedSnapshot ==
  [k \in requiredDataKeys |->
     IF k \in XGKeys THEN "1.5"
     ELSE IF k = "awayTeamShootOutGoals" THEN Itoa(0) ELSE Itoa(MaxGoals)]

\* schedule.ScheduleGame
ScheduleGame(id, date, start, state, home, away) ==
  [ID |-> id, GameDate |-> date, StartTimeUTC |-> start, GameState |-> state,
   HomeTeam |-> home, AwayTeam |-> away]

\* schedule.GameWeekDay
GameWeekDay(date, games) == [Date |-> date, Games |-> games]

\* the date the scheduler is run for, and the day before it
TargetDate == "2025-10-08"
OtherDate == "2025-10-07"

\* time.Now().UTC().Format("2006-01-02"): every instant of the model is on the
\* target date
DateOf(t) == TargetDate

\* the lifecycle states a schedule reports: future, live, final
GameStates == {"FUT", "LIVE", "OFF"}

\* the games a schedule can list at position n of the target date: in any
\* state, with a startTimeUTC that is an RFC3339 instant or is not one
GamesAt(n) ==
  {ScheduleGame(n, TargetDate, start, state, Team(10, NilData, "TOR"), Team(8, NilData, "MTL")) :
     start \in {NoTime, Time(MaxEnd)}, state \in GameStates}

GameLists ==
  UNION {{gs \in [1..k -> UNION {GamesAt(n) : n \in 1..MaxGames}] : \A n \in 1..k : gs[n] \in GamesAt(n)} :
           k \in 0..MaxGames}

\* the one game of the day before the target date
OtherGame ==
  ScheduleGame(MaxGames + 1, OtherDate, Time(MaxEnd), "FUT", Team(6, NilData, "BOS"), Team(3, NilData, "NYR"))

\* schedule.ScheduleResponse: the day before, then the target date if the
\* response has it
GameWeeks ==
  {<<GameWeekDay(OtherDate, <<OtherGame>>)>>}
    \cup {<<GameWeekDay(OtherDate, <<OtherGame>>), GameWeekDay(TargetDate, gs)>> : gs \in GameLists}

\* a schedule source: the upstream schedule API, or a schedule file
Schedules == {[source |-> src, gameWeek |-> w] : src \in {"http", "file"}, w \in GameWeeks}
NoSchedule == [source |-> "none", gameWeek |-> <<>>]

\* a run of the daily scheduler: the games fetched, the game the loop is at,
\* the Enqueue calls made and what Run returned
NoRun ==
  [at |-> -1, fetchErr |-> FALSE, games |-> <<>>, idx |-> 0, calls |-> <<>>, result |-> "none"]

\* scheduler.New(fetcher, q, gameMaxDurationHours, shouldNotify), its runs so
\* far, the run in progress and the run before it
Scheduler(d, n) ==
  [gameMaxDuration |-> d, shouldNotify |-> n, date |-> TargetDate, pc |-> "idle", runs |-> 0,
   run |-> NoRun, prev |-> NoRun]
NoSched == [Scheduler(0, FALSE) EXCEPT !.pc = "off", !.date = ""]

Init ==
  /\ now = 0
  /\ mode \in {"worker", "http"}
  /\ interval \in 1..MaxInterval
  /\ feed = "hit"
  /\ stats = TiedSnapshot
  /\ discord = TRUE
  /\ schedule = NoSchedule
  /\ sched = NoSched
  /\ \E b \in Bodies : queue = {Task(0, b, 0, 0, 0)}
  /\ inv = {}
  /\ archived = {}
  /\ nextId = 1
  /\ dups = 0
  /\ children = [k \in 0..(MaxTasks - 1) |-> 0]
  /\ last = NoLast
  /\ faults = 0
  /\ probe = NoProbe
  /\ sends = NoSends

----------------------------------------------------------------------------
(* The broker *)

Ready(t) == t.deliverAt <= now

\* Retried with the failed task made ready again at once
Retried_NoBackoff(i, res) ==
  IF i.dup = 0 /\ res # "ok" /\ i.task.retried < MaxRetry
  THEN {Task(i.task.id, i.task.body, i.task.enqueuedAt, now, i.task.retried + 1)}
  ELSE {}

\* Retried with the same delay before every retry
Retried_FlatDelay(i, res) ==
  IF i.dup = 0 /\ res # "ok" /\ i.task.retried < MaxRetry
  THEN {Task(i.task.id, i.task.body, i.task.enqueuedAt, now + RetryBase, i.task.retried + 1)}
  ELSE {}

\* what the broker does with the task of invocation i when the handler
\* returns res: a success removes it, a failure is retried with backoff
\* until MaxRetry retries are used up, and then the task is archived
Retried(i, res) ==
  IF i.dup = 0 /\ res # "ok" /\ i.task.retried < MaxRetry
  THEN {Task(i.task.id, i.task.body, i.task.enqueuedAt, now + RetryDelayFunc(i.task.retried),
              i.task.retried + 1)}
  ELSE {}

Archived(i, res) ==
  IF i.dup = 0 /\ res # "ok" /\ i.task.retried >= MaxRetry THEN {i.task} ELSE {}

RetryState(i, res) ==
  IF i.dup # 0 \/ res = "ok" THEN "none"
  ELSE IF i.task.retried < MaxRetry THEN "retry" ELSE "archived"

\* the handler invocation i, having got as far as j, returns res to the
\* broker after enqueuing new; q is the broker's queue at that point
Return(i, j, q, res, fault, new) ==
  /\ inv' = inv \ {i}
  /\ queue' = (q \cup new) \cup Retried(i, res)
  /\ archived' = archived \cup Archived(i, res)
  /\ last' = [j EXCEPT !.pc = "done", !.result = res, !.fault = fault,
                       !.enq = Cardinality(new), !.retry = RetryState(i, res)]

\* the Cloud Tasks handler that does not use the game processor reads
\* *payload.ExecutionEnd without a nil check
NilDereference(payload) == mode = "http-legacy" /\ payload.ExecutionEnd.nil

\* Start with the decode error swallowed: the handler goes on with the zero payload
Start_DecodeOk(i, q) ==
  LET parsed == ParseWatchGameUpdatesPayload(i.task)
      check == ShouldSkipExecution(parsed.payload, now)
      j == [i EXCEPT !.payload = parsed.payload, !.windowAt = now]
  IN  IF NilDereference(parsed.payload) THEN Return(i, j, q, "panic", "window", {})
      ELSE IF check.err THEN Return(i, j, q, "error", "window", {})
      ELSE IF check.skip THEN Return(i, [j EXCEPT !.skipped = TRUE], q, "ok", "none", {})
      ELSE /\ inv' = inv \cup {j}
           /\ queue' = q
           /\ last' = NoLast
           /\ UNCHANGED archived

\* Start with the processing gone on with after the window has expired
Start_NoSkip(i, q) ==
  LET parsed == ParseWatchGameUpdatesPayload(i.task)
      check == ShouldSkipExecution(parsed.payload, now)
      j == [i EXCEPT !.payload = parsed.payload, !.windowAt = now]
  IN  IF parsed.err THEN Return(i, i, q, "error", "decode", {})
      ELSE IF NilDereference(parsed.payload) THEN Return(i, j, q, "panic", "window", {})
      ELSE IF check.err THEN Return(i, j, q, "error", "window", {})
      ELSE /\ inv' = inv \cup {j}
           /\ queue' = q
           /\ last' = NoLast
           /\ UNCHANGED archived

\* the handler starts on a delivery: ProcessTask decodes the payload and
\* checks the execution window; q is what the broker's queue holds meanwhile
Start(i, q) ==
  LET parsed == ParseWatchGameUpdatesPayload(i.task)
      check == ShouldSkipExecution(parsed.payload, now)
      j == [i EXCEPT !.payload = parsed.payload, !.windowAt = now]
  IN  IF parsed.err THEN Return(i, i, q, "error", "decode", {})
      ELSE IF NilDereference(parsed.payload) THEN Return(i, j, q, "panic", "window", {})
      ELSE IF check.err THEN Return(i, j, q, "error", "window", {})
      ELSE IF check.skip THEN Return(i, [j EXCEPT !.skipped = TRUE], q, "ok", "none", {})
      ELSE /\ inv' = inv \cup {j}
           /\ queue' = q
           /\ last' = NoLast
           /\ UNCHANGED archived

\* the broker hands a ready task to the handler
Deliver(t) ==
  /\ t \in queue
  /\ Ready(t)
  /\ Start(NewInv(t, 0, now), queue \ {t})
  /\ UNCHANGED <<now, mode, interval, stats, discord, schedule, sched, feed, nextId, dups, children, faults, probe, sends>>

\* at-least-once delivery: the broker hands a ready task to the handler and
\* still holds it for another delivery
DeliverDuplicate(t) ==
  /\ t \in queue
  /\ Ready(t)
  /\ dups < MaxDup
  /\ dups' = dups + 1
  /\ Start(NewInv(t, dups + 1, now), queue)
  /\ UNCHANGED <<now, mode, interval, stats, discord, schedule, sched, feed, nextId, children, faults, probe, sends>>

\* the clock advances; a handler spans at most MaxHandlerTicks ticks
Tick ==
  /\ now < MaxTime
  /\ \A i \in inv : now - i.started < MaxHandlerTicks
  /\ now' = now + 1
  /\ last' = NoLast
  /\ UNCHANGED <<mode, interval, stats, discord, schedule, sched, feed, queue, inv, archived, nextId, dups, children, faults, probe, sends>>

\* the game goes on: the upstream records another play; nothing follows game-end
UpstreamPlay(k) ==
  /\ feed # "game-end"
  /\ k \in PlayTypes
  /\ k # feed
  /\ feed' = k
  /\ last' = NoLast
  /\ UNCHANGED <<now, mode, interval, stats, discord, schedule, sched, queue, inv, archived, nextId, dups, children, faults, probe, sends>>

----------------------------------------------------------------------------
(* The handler: WatchGameUpdatesHandler.ProcessTask (worker) and
   httpHandler + WatchGameUpdatesHandler (http) *)

\* ProcessFetch with a window check of its own before the play-by-play call
ProcessFetch_WindowFirst(i) ==
  /\ i \in inv
  /\ i.pc = "fetch"
  /\ IF ShouldSkipExecution(i.payload, now).skip
     THEN /\ inv' = (inv \ {i}) \cup {[i EXCEPT !.pc = "decide", !.fetchedAt = now,
                                                !.lastPlay = "window-closed"]}
          /\ last' = NoLast
          /\ UNCHANGED <<queue, archived, faults>>
     ELSE \E r \in Responses(feed) :
            LET f == FetchPlayByPlay(r)
                j == [i EXCEPT !.calls = Append(@, "playbyplay"), !.fetchedAt = now,
                               !.resp = IF r.kind = "ok" /\ r.plays = <<>> THEN "empty" ELSE r.kind,
                               !.lastPlay = f.lastPlay.TypeDescKey]
            IN  IF f.panic
                THEN /\ faults < MaxFaults
                     /\ faults' = faults + 1
                     /\ Return(i, j, queue, "panic", "playbyplay", {})
                ELSE /\ inv' = (inv \ {i}) \cup
                                 {[j EXCEPT !.pc = IF f.lastPlay.TypeDescKey \in RecomputeTypesOf(mode)
                                                   THEN "stats" ELSE "decide"]}
                     /\ last' = NoLast
                     /\ UNCHANGED <<queue, archived, faults>>
  /\ UNCHANGED <<now, mode, interval, stats, discord, schedule, sched, feed, nextId, dups, children, probe, sends>>

\* ProcessGameUpdate, first half: FetchPlayByPlay and the recompute gate;
\* fetchedAt is the instant ProcessGameUpdate was entered
ProcessFetch(i) ==
  /\ i \in inv
  /\ i.pc = "fetch"
  /\ \E r \in Responses(feed) :
       LET f == FetchPlayByPlay(r)
           j == [i EXCEPT !.calls = Append(@, "playbyplay"), !.fetchedAt = now,
                          !.resp = IF r.kind = "ok" /\ r.plays = <<>> THEN "empty" ELSE r.kind,
                          !.lastPlay = f.lastPlay.TypeDescKey]
       IN  IF f.panic
           THEN /\ faults < MaxFaults
                /\ faults' = faults + 1
                /\ Return(i, j, queue, "panic", "playbyplay", {})
           ELSE /\ inv' = (inv \ {i}) \cup
                            {[j EXCEPT !.pc = IF f.lastPlay.TypeDescKey \in RecomputeTypesOf(mode)
                                              THEN "stats" ELSE "decide"]}
                /\ last' = NoLast
                /\ UNCHANGED <<queue, archived, faults>>
  /\ UNCHANGED <<now, mode, interval, stats, discord, schedule, sched, feed, nextId, dups, children, probe, sends>>

\* Fetcher.FetchAndParseGameData(gameID, requiredKeys) on a server whose last
\* row is row: the required columns the row has, or nil and an error
FetchAndParseGameData(row) ==
  {[err |-> TRUE, gameData |-> NilData],
   [err |-> FALSE, gameData |-> Data([k \in DOMAIN row \cap requiredDataKeys |-> row[k]])]}

\* ShootoutBranch taken on every play
ShootoutBranch_AnyPlay(lastPlay, gameData) ==
  IF /\ ~gameData.nil
     /\ Has(gameData, "homeTeamGoals")
     /\ Has(gameData, "awayTeamGoals")
     /\ Get(gameData, "homeTeamGoals") = Get(gameData, "awayTeamGoals")
  THEN LET a == AdjustScoreForShootout(gameData)
       IN  [adjust |-> IF a.err THEN "error" ELSE "done", data |-> a.data]
  ELSE [adjust |-> "none", data |-> gameData]

\* the shootout branch of ProcessGameUpdate: on game-end with both goal counts
\* there and equal, AdjustScoreForShootout, whose error is only logged
ShootoutBranch(lastPlay, gameData) ==
  IF /\ lastPlay = "game-end"
     /\ ~gameData.nil
     /\ Has(gameData, "homeTeamGoals")
     /\ Has(gameData, "awayTeamGoals")
     /\ Get(gameData, "homeTeamGoals") = Get(gameData, "awayTeamGoals")
  THEN LET a == AdjustScoreForShootout(gameData)
       IN  [adjust |-> IF a.err THEN "error" ELSE "done", data |-> a.data]
  ELSE [adjust |-> "none", data |-> gameData]

\* NotificationFlag with the payload's should_notify ignored
\* the goroutine SendGameEventNotifications starts for notifier n of the
\* service of invocation i: sendToNotifier(notifier, req, n), not yet running
Goroutine(i, n) ==
  [task |-> i.task.id, dup |-> i.dup, started |-> i.started, retried |-> i.task.retried,
   notifier |-> n, key |-> i.lastPlay, pc |-> "spawned", armedAt |-> -1, inner |-> "none",
   returned |-> FALSE, closed |-> FALSE, onClosed |-> FALSE]

\* go s.sendToNotifier(notifier, req, i), once per notifier
Dispatched(i, notifiers) == {Goroutine(i, n) : n \in 1..notifiers}

\* SendGameEventNotifications starts its goroutines; they run unobserved
\* where the specification does not follow them
Started(i, notifiers) ==
  IF sends.follow THEN [sends EXCEPT !.g = @ \cup Dispatched(i, notifiers)] ELSE sends

\* the goroutines started by invocation i
GoroutinesOf(i) ==
  {g \in sends.g : g.task = i.task.id /\ g.dup = i.dup /\ g.started = i.started}

\* the handler of invocation i returns. ProcessTask has deferred
\* notificationService.Close(), which closes the session of every notifier
\* of the service; httpHandler never closes the service it builds
HandlerReturns(i) ==
  [sends EXCEPT !.g = {IF g \in GoroutinesOf(i)
                       THEN [g EXCEPT !.returned = TRUE, !.closed = (mode = "worker")]
                       ELSE g : g \in sends.g}]

NotificationFlag_Ignored(payload) == TRUE

\* the shouldNotify flag of the notification service the handler builds for
\* the iteration: NewServiceWithNotificationFlag(*payload.ShouldNotify), or
\* NewService(), which is NewServiceWithNotificationFlag(true)
NotificationFlag(payload) ==
  IF ~payload.ShouldNotify.nil THEN payload.ShouldNotify.v ELSE TRUE

\* ProcessStats with a failed stats fetch returned to the broker as an error
ProcessStats_FailFast(i) ==
  /\ i \in inv
  /\ i.pc = "stats"
  /\ \E r \in FetchAndParseGameData(stats) :
       LET shouldNotify == NotificationFlag(i.payload)
           b == ShootoutBranch(i.lastPlay, r.gameData)
           sent == SendGameEventNotifications(shouldNotify, IF discord THEN 1 ELSE 0, b.data)
       IN  IF r.err
           THEN /\ Return(i, [i EXCEPT !.calls = Append(@, "stats"), !.statsErr = TRUE],
                          queue, "error", "stats", {})
                /\ UNCHANGED sends
           ELSE /\ inv' = (inv \ {i}) \cup
                            {[i EXCEPT !.pc = "decide", !.calls = Append(@, "stats"),
                                       !.statsErr = r.err, !.adjust = b.adjust, !.data = b.data,
                                       !.messages = sent, !.notified = Len(sent)]}
                /\ sends' = Started(i, Len(sent))
                /\ last' = NoLast
                /\ UNCHANGED <<queue, archived>>
  /\ UNCHANGED <<now, mode, interval, stats, discord, schedule, sched, feed, nextId, dups, children, faults, probe>>

\* ProcessStats with the snapshot fetched a second time for the notification
ProcessStats_Twice(i) ==
  /\ i \in inv
  /\ i.pc = "stats"
  /\ \E r \in FetchAndParseGameData(stats) :
       LET shouldNotify == NotificationFlag(i.payload)
           b == ShootoutBranch(i.lastPlay, r.gameData)
           sent == SendGameEventNotifications(shouldNotify, IF discord THEN 1 ELSE 0, b.data)
       IN  /\ inv' = (inv \ {i}) \cup
                       {[i EXCEPT !.pc = "decide", !.calls = Append(Append(@, "stats"), "stats"),
                                  !.statsErr = r.err, !.adjust = b.adjust, !.data = b.data,
                                  !.messages = sent, !.notified = Len(sent)]}
           /\ sends' = Started(i, Len(sent))
  /\ last' = NoLast
  /\ UNCHANGED <<now, mode, interval, stats, discord, schedule, sched, feed, queue, archived, nextId, dups, children, faults, probe>>

\* ProcessGameUpdate, inside the recompute gate: the stats fetch, the
\* shootout branch, then SendGameEventNotifications
ProcessStats(i) ==
  /\ i \in inv
  /\ i.pc = "stats"
  /\ \E r \in FetchAndParseGameData(stats) :
       LET shouldNotify == NotificationFlag(i.payload)
           b == ShootoutBranch(i.lastPlay, r.gameData)
           sent == SendGameEventNotifications(shouldNotify, IF discord THEN 1 ELSE 0, b.data)
       IN  /\ inv' = (inv \ {i}) \cup
                       {[i EXCEPT !.pc = "decide", !.calls = Append(@, "stats"),
                                  !.statsErr = r.err, !.adjust = b.adjust, !.data = b.data,
                                  !.messages = sent, !.notified = Len(sent)]}
           /\ sends' = Started(i, Len(sent))
  /\ last' = NoLast
  /\ UNCHANGED <<now, mode, interval, stats, discord, schedule, sched, feed, queue, archived, nextId, dups, children, faults, probe>>

\* how scheduleNextCheck fails: the worker returns the enqueue error; the
\* Cloud Tasks variant returns the CreateTask error, and exits the process
\* (log.Fatalf) when the client cannot be created
EnqueueFailures == IF mode \in {"http", "http-legacy"} THEN {"error", "fatal"} ELSE {"error"}

\* ProcessDecide with scheduleNextCheck called whatever the decision
ProcessDecide_Always(i) ==
  /\ i \in inv
  /\ i.pc = "decide"
  /\ LET d == ShouldReschedule(i.payload, [TypeDescKey |-> i.lastPlay], now)
         j == [i EXCEPT !.decidedAt = now, !.decision = d]
         succ == Task(nextId, Marshal(i.payload), now, now + interval, 0)
     IN  \/ /\ nextId < MaxTasks
            /\ Return(i, j, queue, "ok", "none", {succ})
            /\ nextId' = nextId + 1
            /\ children' = [children EXCEPT ![i.task.id] = @ + 1]
            /\ UNCHANGED faults
         \/ /\ nextId >= MaxTasks
            /\ Return(i, j, queue, "error", "enqueue", {})
            /\ UNCHANGED <<nextId, children, faults>>
  /\ sends' = HandlerReturns(i)
  /\ UNCHANGED <<now, mode, interval, stats, discord, schedule, sched, feed, dups, probe>>

\* ProcessDecide with the successor's payload built without execution_end
ProcessDecide_NoEnd(i) ==
  /\ i \in inv
  /\ i.pc = "decide"
  /\ LET d == ShouldReschedule(i.payload, [TypeDescKey |-> i.lastPlay], now)
         j == [i EXCEPT !.decidedAt = now, !.decision = d]
         succ == Task(nextId, Marshal([i.payload EXCEPT !.ExecutionEnd = NilStr]),
                      now, now + interval, 0)
     IN  IF ~d
         THEN /\ Return(i, j, queue, "ok", "none", {})
              /\ UNCHANGED <<nextId, children, faults>>
         ELSE \/ /\ nextId < MaxTasks
                 /\ Return(i, j, queue, "ok", "none", {succ})
                 /\ nextId' = nextId + 1
                 /\ children' = [children EXCEPT ![i.task.id] = @ + 1]
                 /\ UNCHANGED faults
              \/ /\ nextId < MaxTasks
                 /\ faults < MaxFaults
                 /\ faults' = faults + 1
                 /\ \E res \in EnqueueFailures : Return(i, j, queue, res, "enqueue", {})
                 /\ UNCHANGED <<nextId, children>>
              \/ /\ nextId >= MaxTasks
                 /\ Return(i, j, queue, "error", "enqueue", {})
                 /\ UNCHANGED <<nextId, children, faults>>
  /\ sends' = HandlerReturns(i)
  /\ UNCHANGED <<now, mode, interval, stats, discord, schedule, sched, feed, dups, probe>>

\* ProcessDecide with the successor due at once
ProcessDecide_NoDelay(i) ==
  /\ i \in inv
  /\ i.pc = "decide"
  /\ LET d == ShouldReschedule(i.payload, [TypeDescKey |-> i.lastPlay], now)
         j == [i EXCEPT !.decidedAt = now, !.decision = d]
         succ == Task(nextId, Marshal(i.payload), now, now, 0)
     IN  IF ~d
         THEN /\ Return(i, j, queue, "ok", "none", {})
              /\ UNCHANGED <<nextId, children, faults>>
         ELSE \/ /\ nextId < MaxTasks
                 /\ Return(i, j, queue, "ok", "none", {succ})
                 /\ nextId' = nextId + 1
                 /\ children' = [children EXCEPT ![i.task.id] = @ + 1]
                 /\ UNCHANGED faults
              \/ /\ nextId < MaxTasks
                 /\ faults < MaxFaults
                 /\ faults' = faults + 1
                 /\ \E res \in EnqueueFailures : Return(i, j, queue, res, "enqueue", {})
                 /\ UNCHANGED <<nextId, children>>
              \/ /\ nextId >= MaxTasks
                 /\ Return(i, j, queue, "error", "enqueue", {})
                 /\ UNCHANGED <<nextId, children, faults>>
  /\ sends' = HandlerReturns(i)
  /\ UNCHANGED <<now, mode, interval, stats, discord, schedule, sched, feed, dups, probe>>

\* ProcessDecide with the enqueue error reported after the successor was created
ProcessDecide_FailAfterEnqueue(i) ==
  /\ i \in inv
  /\ i.pc = "decide"
  /\ LET d == ShouldReschedule(i.payload, [TypeDescKey |-> i.lastPlay], now)
         j == [i EXCEPT !.decidedAt = now, !.decision = d]
         succ == Task(nextId, Marshal(i.payload), now, now + interval, 0)
     IN  IF ~d
         THEN /\ Return(i, j, queue, "ok", "none", {})
              /\ UNCHANGED <<nextId, children, faults>>
         ELSE \/ /\ nextId < MaxTasks
                 /\ Return(i, j, queue, "ok", "none", {succ})
                 /\ nextId' = nextId + 1
                 /\ children' = [children EXCEPT ![i.task.id] = @ + 1]
                 /\ UNCHANGED faults
              \/ /\ nextId < MaxTasks
                 /\ faults < MaxFaults
                 /\ faults' = faults + 1
                 /\ \E res \in EnqueueFailures : Return(i, j, queue, res, "enqueue", {succ})
                 /\ nextId' = nextId + 1
                 /\ children' = [children EXCEPT ![i.task.id] = @ + 1]
              \/ /\ nextId >= MaxTasks
                 /\ Return(i, j, queue, "error", "enqueue", {})
                 /\ UNCHANGED <<nextId, children, faults>>
  /\ sends' = HandlerReturns(i)
  /\ UNCHANGED <<now, mode, interval, stats, discord, schedule, sched, feed, dups, probe>>

\* ProcessDecide with the handler waiting for the results of its notifications
ProcessDecide_AwaitResults(i) ==
  /\ i \in inv
  /\ i.pc = "decide"
  /\ \A g \in GoroutinesOf(i) : g.pc \in {"done", "timeout"}
  /\ LET d == ShouldReschedule(i.payload, [TypeDescKey |-> i.lastPlay], now)
         j == [i EXCEPT !.decidedAt = now, !.decision = d]
         succ == Task(nextId, Marshal(i.payload), now, now + interval, 0)
     IN  IF ~d
         THEN /\ Return(i, j, queue, "ok", "none", {})
              /\ UNCHANGED <<nextId, children, faults>>
         ELSE \/ /\ nextId < MaxTasks
                 /\ Return(i, j, queue, "ok", "none", {succ})
                 /\ nextId' = nextId + 1
                 /\ children' = [children EXCEPT ![i.task.id] = @ + 1]
                 /\ UNCHANGED faults
              \/ /\ nextId < MaxTasks
                 /\ faults < MaxFaults
                 /\ faults' = faults + 1
                 /\ \E res \in EnqueueFailures : Return(i, j, queue, res, "enqueue", {})
                 /\ UNCHANGED <<nextId, children>>
              \/ /\ nextId >= MaxTasks
                 /\ Return(i, j, queue, "error", "enqueue", {})
                 /\ UNCHANGED <<nextId, children, faults>>
  /\ sends' = HandlerReturns(i)
  /\ UNCHANGED <<now, mode, interval, stats, discord, schedule, sched, feed, dups, probe>>

\* ProcessGameUpdate's decision and scheduleNextCheck
ProcessDecide(i) ==
  /\ i \in inv
  /\ i.pc = "decide"
  /\ LET d == ShouldReschedule(i.payload, [TypeDescKey |-> i.lastPlay], now)
         j == [i EXCEPT !.decidedAt = now, !.decision = d]
         succ == Task(nextId, Marshal(i.payload), now, now + interval, 0)
     IN  IF ~d
         THEN /\ Return(i, j, queue, "ok", "none", {})
              /\ UNCHANGED <<nextId, children, faults>>
         ELSE \/ /\ nextId < MaxTasks
                 /\ Return(i, j, queue, "ok", "none", {succ})
                 /\ nextId' = nextId + 1
                 /\ children' = [children EXCEPT ![i.task.id] = @ + 1]
                 /\ UNCHANGED faults
              \/ /\ nextId < MaxTasks
                 /\ faults < MaxFaults
                 /\ faults' = faults + 1
                 /\ \E res \in EnqueueFailures : Return(i, j, queue, res, "enqueue", {})
                 /\ UNCHANGED <<nextId, children>>
              \/ /\ nextId >= MaxTasks
                 /\ Return(i, j, queue, "error", "enqueue", {})
                 /\ UNCHANGED <<nextId, children, faults>>
  /\ sends' = HandlerReturns(i)
  /\ UNCHANGED <<now, mode, interval, stats, discord, schedule, sched, feed, dups, probe>>

Next ==
  \/ \E t \in queue : Deliver(t)
  \/ Tick
  \/ \E k \in PlayTypes : UpstreamPlay(k)
  \/ \E i \in inv : ProcessFetch(i)
  \/ \E i \in inv : ProcessStats(i)
  \/ \E i \in inv : ProcessDecide(i)

\* the tracking loop on a broker that delivers every task once per attempt
Spec == Init /\ [][Next]_vars

\* the worker with notifications left at their default, the broker eventually
\* delivering every ready task, every handler running to its return, and the
\* clock advancing
LiveInit ==
  /\ Init
  /\ mode = "worker"
  /\ \A t \in queue : Unmarshal(t.body).payload.ShouldNotify.nil

LiveSpec ==
  /\ LiveInit
  /\ [][Next]_vars
  /\ WF_vars(Tick)
  /\ WF_vars(\E t \in queue : Deliver(t))
  /\ WF_vars(\E i \in inv : ProcessFetch(i))
  /\ WF_vars(\E i \in inv : ProcessStats(i))
  /\ WF_vars(\E i \in inv : ProcessDecide(i))

\* the tracking loop on a broker that may deliver a task twice, while the
\* game is in progress and nothing else fails
DupInit ==
  /\ now = 0
  /\ mode = "worker"
  /\ interval = 1
  /\ feed \in {"hit", "goal"}
  /\ stats = TiedSnapshot
  /\ discord = TRUE
  /\ schedule = NoSchedule
  /\ sched = NoSched
  /\ \E e \in ExecutionEnds : queue = {Task(0, Marshal(Payload("2024030411", e, NilBool)), 0, 0, 0)}
  /\ inv = {}
  /\ archived = {}
  /\ nextId = 1
  /\ dups = 0
  /\ children = [k \in 0..(MaxTasks - 1) |-> 0]
  /\ last = NoLast
  /\ faults = MaxFaults
  /\ probe = NoProbe
  /\ sends = NoSends

DupNext ==
  \/ \E t \in queue : Deliver(t)
  \/ \E t \in queue : DeliverDuplicate(t)
  \/ Tick
  \/ \E i \in inv : ProcessFetch(i)
  \/ \E i \in inv : ProcessStats(i)
  \/ \E i \in inv : ProcessDecide(i)

DupSpec == DupInit /\ [][DupNext]_vars

\* one iteration in each handler variant, on every play and every stats
\* snapshot, with and without a notifier, while nothing else fails
StatsPlayTypes == PlayTypes \cup {"period-end"}

StatsSnapshots == {Merge(f, g) : f \in GoalMaps, g \in {h \in XGMaps : DOMAIN h \in {{}, XGKeys}}}

StatsInit ==
  /\ now = 0
  /\ mode \in {"worker", "http", "http-legacy"}
  /\ interval = 1
  /\ feed \in StatsPlayTypes
  /\ stats \in StatsSnapshots
  /\ discord \in BOOLEAN
  /\ schedule = NoSchedule
  /\ sched = NoSched
  /\ \E n \in {NilBool, PtrBool(FALSE)} :
       queue = {Task(0, Marshal(Payload("2024030411", TimeStr(MaxEnd), n)), 0, 0, 0)}
  /\ inv = {}
  /\ archived = {}
  /\ nextId = 1
  /\ dups = 0
  /\ children = [k \in 0..(MaxTasks - 1) |-> 0]
  /\ last = NoLast
  /\ faults = MaxFaults
  /\ probe = NoProbe
  /\ sends = NoSends

StatsNext ==
  \/ \E t \in queue : Deliver(t)
  \/ \E i \in inv : ProcessFetch(i)
  \/ \E i \in inv : ProcessStats(i)
  \/ \E i \in inv : ProcessDecide(i)

StatsSpec == StatsInit /\ [][StatsNext]_vars

\* the worker on a broker that holds two tasks: one that fails on every
\* delivery (its body does not decode, or its execution_end does not parse)
\* and the first task of a tracking session
RetryInit ==
  /\ now = 0
  /\ mode = "worker"
  /\ interval = 1
  /\ feed = "goal"
  /\ stats = TiedSnapshot
  /\ discord = TRUE
  /\ schedule = NoSchedule
  /\ sched = NoSched
  /\ \E b \in {InvalidJSON, Marshal(Payload("2024030411", BadStr, NilBool))},
        e \in {NilStr, TimeStr(MaxEnd)} :
       queue = {Task(0, b, 0, 0, 0), Task(1, Marshal(Payload("2024030411", e, NilBool)), 0, 0, 0)}
  /\ inv = {}
  /\ archived = {}
  /\ nextId = 2
  /\ dups = 0
  /\ children = [k \in 0..(MaxTasks - 1) |-> 0]
  /\ last = NoLast
  /\ faults = MaxFaults
  /\ probe = NoProbe
  /\ sends = NoSends

RetryNext ==
  \/ \E t \in queue : Deliver(t)
  \/ Tick
  \/ \E i \in inv : ProcessFetch(i)
  \/ \E i \in inv : ProcessStats(i)
  \/ \E i \in inv : ProcessDecide(i)

RetrySpec == RetryInit /\ [][RetryNext]_vars

\* sendToNotifier starts: the context with its timeout, FormatMessage, and
\* SendNotification, which starts the goroutine that sends and hands back the
\* result channel; sendToNotifier then waits in its select
SendToNotifier(g) ==
  /\ g \in sends.g
  /\ g.pc = "spawned"
  /\ sends' = [sends EXCEPT !.g = (@ \ {g}) \cup {[g EXCEPT !.pc = "waiting", !.armedAt = now, !.inner = "running"]}]
  /\ last' = NoLast
  /\ UNCHANGED <<now, mode, interval, stats, discord, schedule, sched, feed, queue, inv, archived, nextId, dups, children, faults, probe>>

\* the goroutine of SendNotification: session.ChannelMessageSend, which takes
\* no context, and the result put in the channel
ChannelMessageSend(g) ==
  /\ g \in sends.g
  /\ g.inner = "running"
  /\ sends' = [sends EXCEPT !.g = (@ \ {g}) \cup {[g EXCEPT !.inner = "sent", !.onClosed = g.closed]}]
  /\ last' = NoLast
  /\ UNCHANGED <<now, mode, interval, stats, discord, schedule, sched, feed, queue, inv, archived, nextId, dups, children, faults, probe>>

\* select, case result := <-resultChan
SendResult(g) ==
  /\ g \in sends.g
  /\ g.pc = "waiting"
  /\ g.inner = "sent"
  /\ sends' = [sends EXCEPT !.g = (@ \ {g}) \cup {[g EXCEPT !.pc = "done"]}]
  /\ last' = NoLast
  /\ UNCHANGED <<now, mode, interval, stats, discord, schedule, sched, feed, queue, inv, archived, nextId, dups, children, faults, probe>>

\* select, case <-ctx.Done(): the timeout of the context has passed
SendTimeout(g) ==
  /\ g \in sends.g
  /\ g.pc = "waiting"
  /\ now >= g.armedAt + NotifyTimeout
  /\ sends' = [sends EXCEPT !.g = (@ \ {g}) \cup {[g EXCEPT !.pc = "timeout"]}]
  /\ last' = NoLast
  /\ UNCHANGED <<now, mode, interval, stats, discord, schedule, sched, feed, queue, inv, archived, nextId, dups, children, faults, probe>>

\* the tracking loop with its notification goroutines, on a broker that
\* delivers every task once and with nothing failing
NotifyInit ==
  /\ now = 0
  /\ mode \in {"worker", "http"}
  /\ interval = 1
  /\ feed \in {"goal", "game-end"}
  /\ stats = TiedSnapshot
  /\ discord = TRUE
  /\ schedule = NoSchedule
  /\ sched = NoSched
  /\ queue = {Task(0, Marshal(Payload("2024030411", TimeStr(MaxEnd), NilBool)), 0, 0, 0)}
  /\ inv = {}
  /\ archived = {}
  /\ nextId = 1
  /\ dups = 0
  /\ children = [k \in 0..(MaxTasks - 1) |-> 0]
  /\ last = NoLast
  /\ faults = MaxFaults
  /\ probe = NoProbe
  /\ sends = [follow |-> TRUE, g |-> {}]

NotifyNext ==
  \/ \E t \in queue : Deliver(t)
  \/ Tick
  \/ \E i \in inv : ProcessFetch(i)
  \/ \E i \in inv : ProcessStats(i)
  \/ \E i \in inv : ProcessDecide(i)
  \/ \E g \in sends.g : SendToNotifier(g)
  \/ \E g \in sends.g : ChannelMessageSend(g)
  \/ \E g \in sends.g : SendResult(g)
  \/ \E g \in sends.g : SendTimeout(g)

NotifySpec == NotifyInit /\ [][NotifyNext]_vars

----------------------------------------------------------------------------
(* The daily scheduler: Scheduler.Run on the schedule fetchers and the
   Cloud Tasks queue *)

\* filterGamesByDate(resp, date): the games of the first day of that date
filterGamesByDate(resp, date) ==
  IF \E n \in DOMAIN resp : resp[n].Date = date
  THEN resp[CHOOSE n \in DOMAIN resp :
              resp[n].Date = date /\ \A k \in 1..(n - 1) : resp[k].Date # date].Games
  ELSE <<>>

\* the games of all days of a schedule file, in the file's order
RECURSIVE AllGames(_)
AllGames(resp) == IF resp = <<>> THEN <<>> ELSE Head(resp).Games \o AllGames(Tail(resp))

\* AdjustedGames with the start times counted from the start of the day
AdjustedGames_FromMidnight(games, t) ==
  [i \in DOMAIN games |->
     [games[i] EXCEPT !.GameDate = DateOf(t),
                      !.StartTimeUTC = Time(FileStartLead + FileStartStep * (i - 1))]]

\* FileScheduleFetcher: game i of the file (from 0) is moved to today and to
\* now + 60 s + 10 s * i; nothing else of it is changed
AdjustedGames(games, t) ==
  [i \in DOMAIN games |->
     [games[i] EXCEPT !.GameDate = DateOf(t),
                      !.StartTimeUTC = Time(t + FileStartLead + FileStartStep * (i - 1))]]

\* HTTPScheduleFetcher.FetchSchedule(ctx, date): an error (transport, status,
\* body), or the games of the date
HTTPFetchSchedule(resp, date) ==
  {[err |-> TRUE, games |-> <<>>], [err |-> FALSE, games |-> filterGamesByDate(resp, date)]}

\* FileScheduleFetcher.FetchSchedule(ctx, date) at instant t: an error (the
\* file cannot be read or parsed), or all games of the file, adjusted
FileFetchSchedule(resp, t) ==
  {[err |-> TRUE, games |-> <<>>], [err |-> FALSE, games |-> AdjustedGames(AllGames(resp), t)]}

\* s.fetcher.FetchSchedule(ctx, date), the fetcher being the one
\* NewScheduleFetcher makes for the source
FetchSchedule(src, date, t) ==
  IF src.source = "file" THEN FileFetchSchedule(src.gameWeek, t)
  ELSE HTTPFetchSchedule(src.gameWeek, date)

\* SchedulerFetch with a fetch error taken for an empty schedule
SchedulerFetch_IgnoreError ==
  /\ sched.pc = "idle"
  /\ \E r \in FetchSchedule(schedule, sched.date, now) :
       LET run == [NoRun EXCEPT !.at = now, !.fetchErr = r.err, !.games = r.games]
       IN  /\ r.err => faults < MaxFaults
           /\ faults' = IF r.err THEN faults + 1 ELSE faults
           /\ sched' = IF Len(r.games) = 0
                       THEN [sched EXCEPT !.pc = "done", !.run = [run EXCEPT !.result = "ok"]]
                       ELSE [sched EXCEPT !.pc = "loop", !.run = [run EXCEPT !.idx = 1]]
  /\ UNCHANGED <<now, mode, interval, stats, discord, schedule, feed, queue, inv, archived, nextId, dups, children, last, probe, sends>>

\* Scheduler.Run, up to the loop: the schedule is fetched; a fetch error is
\* returned, an empty schedule ends the run
SchedulerFetch ==
  /\ sched.pc = "idle"
  /\ \E r \in FetchSchedule(schedule, sched.date, now) :
       LET run == [NoRun EXCEPT !.at = now, !.fetchErr = r.err, !.games = r.games]
       IN  /\ r.err => faults < MaxFaults
           /\ faults' = IF r.err THEN faults + 1 ELSE faults
           /\ sched' = IF r.err
                       THEN [sched EXCEPT !.pc = "done", !.run = [run EXCEPT !.result = "error"]]
                       ELSE IF Len(r.games) = 0
                       THEN [sched EXCEPT !.pc = "done", !.run = [run EXCEPT !.result = "ok"]]
                       ELSE [sched EXCEPT !.pc = "loop", !.run = [run EXCEPT !.idx = 1]]
  /\ UNCHANGED <<now, mode, interval, stats, discord, schedule, feed, queue, inv, archived, nextId, dups, children, last, probe, sends>>

\* CloudTasksQueue.Enqueue(ctx, payload, deliverAt): the task it creates
EnqueuedTask(id, payload, deliverAt) == Task(id, Marshal(payload), now, deliverAt, 0)

\* the payload Scheduler.Run builds for a game starting at startTime
GameTaskPayload(game, startTime) ==
  GamePayload(Game(Itoa(game.ID), game.GameDate, game.StartTimeUTC, game.HomeTeam, game.AwayTeam),
              TimeStr(startTime + sched.gameMaxDuration),
              PtrBool(sched.shouldNotify))

\* the scheduler after the loop body of game idx: at the next game, or
\* returned from Run
AfterGame(s) ==
  IF s.run.idx = Len(s.run.games)
  THEN [s EXCEPT !.pc = "done", !.run.idx = @ + 1, !.run.result = "ok"]
  ELSE [s EXCEPT !.run.idx = @ + 1]

\* one Enqueue call of the run, made for the game at index n
Call(n, payload, deliverAt, ok) ==
  [index |-> n, payload |-> payload, deliverAt |-> deliverAt, ok |-> ok]

Called(s, c) == [s EXCEPT !.run.calls = Append(@, c)]

\* SchedulerGame with the task due at the instant of the run
SchedulerGame_DueNow ==
  /\ sched.pc = "loop"
  /\ LET game == sched.run.games[sched.run.idx]
         startTime == TimeParse(game.StartTimeUTC)
         payload == GameTaskPayload(game, startTime.t)
     IN  IF game.GameState # "FUT" \/ startTime.err
         THEN /\ sched' = AfterGame(sched)
              /\ UNCHANGED <<queue, nextId, faults>>
         ELSE \/ /\ queue' = queue \cup {EnqueuedTask(nextId, payload, now)}
                 /\ nextId' = nextId + 1
                 /\ sched' = AfterGame(Called(sched, Call(sched.run.idx, payload, now, TRUE)))
                 /\ UNCHANGED faults
              \/ /\ faults < MaxFaults
                 /\ faults' = faults + 1
                 /\ sched' = AfterGame(Called(sched, Call(sched.run.idx, payload, now, FALSE)))
                 /\ UNCHANGED <<queue, nextId>>
  /\ UNCHANGED <<now, mode, interval, stats, discord, schedule, feed, inv, archived, dups, children, last, probe, sends>>

\* SchedulerGame with the games enqueued whatever their state
SchedulerGame_AnyState ==
  /\ sched.pc = "loop"
  /\ LET game == sched.run.games[sched.run.idx]
         startTime == TimeParse(game.StartTimeUTC)
         payload == GameTaskPayload(game, startTime.t)
     IN  IF startTime.err
         THEN /\ sched' = AfterGame(sched)
              /\ UNCHANGED <<queue, nextId, faults>>
         ELSE \/ /\ queue' = queue \cup {EnqueuedTask(nextId, payload, startTime.t)}
                 /\ nextId' = nextId + 1
                 /\ sched' = AfterGame(Called(sched, Call(sched.run.idx, payload, startTime.t, TRUE)))
                 /\ UNCHANGED faults
              \/ /\ faults < MaxFaults
                 /\ faults' = faults + 1
                 /\ sched' = AfterGame(Called(sched, Call(sched.run.idx, payload, startTime.t, FALSE)))
                 /\ UNCHANGED <<queue, nextId>>
  /\ UNCHANGED <<now, mode, interval, stats, discord, schedule, feed, inv, archived, dups, children, last, probe, sends>>

\* SchedulerGame with the run ended by the first failed Enqueue
SchedulerGame_AbortOnError ==
  /\ sched.pc = "loop"
  /\ LET game == sched.run.games[sched.run.idx]
         startTime == TimeParse(game.StartTimeUTC)
         payload == GameTaskPayload(game, startTime.t)
     IN  IF game.GameState # "FUT" \/ startTime.err
         THEN /\ sched' = AfterGame(sched)
              /\ UNCHANGED <<queue, nextId, faults>>
         ELSE \/ /\ queue' = queue \cup {EnqueuedTask(nextId, payload, startTime.t)}
                 /\ nextId' = nextId + 1
                 /\ sched' = AfterGame(Called(sched, Call(sched.run.idx, payload, startTime.t, TRUE)))
                 /\ UNCHANGED faults
              \/ /\ faults < MaxFaults
                 /\ faults' = faults + 1
                 /\ sched' = [Called(sched, Call(sched.run.idx, payload, startTime.t, FALSE))
                              EXCEPT !.pc = "done", !.run.result = "error"]
                 /\ UNCHANGED <<queue, nextId>>
  /\ UNCHANGED <<now, mode, interval, stats, discord, schedule, feed, inv, archived, dups, children, last, probe, sends>>

\* Scheduler.Run, the loop body for one game: a game that is not FUT, or
\* whose start time does not parse, is skipped; else its task is enqueued, and
\* a failed Enqueue is logged
SchedulerGame ==
  /\ sched.pc = "loop"
  /\ LET game == sched.run.games[sched.run.idx]
         startTime == TimeParse(game.StartTimeUTC)
         payload == GameTaskPayload(game, startTime.t)
     IN  IF game.GameState # "FUT" \/ startTime.err
         THEN /\ sched' = AfterGame(sched)
              /\ UNCHANGED <<queue, nextId, faults>>
         ELSE \/ /\ queue' = queue \cup {EnqueuedTask(nextId, payload, startTime.t)}
                 /\ nextId' = nextId + 1
                 /\ sched' = AfterGame(Called(sched, Call(sched.run.idx, payload, startTime.t, TRUE)))
                 /\ UNCHANGED faults
              \/ /\ faults < MaxFaults
                 /\ faults' = faults + 1
                 /\ sched' = AfterGame(Called(sched, Call(sched.run.idx, payload, startTime.t, FALSE)))
                 /\ UNCHANGED <<queue, nextId>>
  /\ UNCHANGED <<now, mode, interval, stats, discord, schedule, feed, inv, archived, dups, children, last, probe, sends>>

\* the scheduler is run again, for the same date, on an empty broker
SchedulerRerun ==
  /\ sched.pc = "done"
  /\ sched.runs + 1 < MaxRuns
  /\ sched' = [sched EXCEPT !.pc = "idle", !.runs = @ + 1, !.prev = sched.run, !.run = NoRun]
  /\ queue' = {}
  /\ nextId' = 1
  /\ UNCHANGED <<now, mode, interval, stats, discord, schedule, feed, inv, archived, dups, children, last, faults, probe, sends>>

\* time passes between two runs of the scheduler
SchedulerWait ==
  /\ sched.pc = "done"
  /\ sched.runs + 1 < MaxRuns
  /\ now - sched.run.at < MaxRunGap
  /\ Tick

\* a scheduler configured from the environment, and a broker with no task
SchedInit ==
  /\ now = 0
  /\ mode = "http"
  /\ interval = 1
  /\ feed = "hit"
  /\ stats = TiedSnapshot
  /\ discord = TRUE
  /\ schedule \in Schedules
  /\ sched \in {Scheduler(d, n) : d \in 1..MaxDuration, n \in BOOLEAN}
  /\ queue = {}
  /\ inv = {}
  /\ archived = {}
  /\ nextId = 1
  /\ dups = 0
  /\ children = [k \in 0..(MaxTasks - 1) |-> 0]
  /\ last = NoLast
  /\ faults = 0
  /\ probe = NoProbe
  /\ sends = NoSends

SchedNext ==
  \/ SchedulerFetch
  \/ SchedulerGame
  \/ SchedulerRerun
  \/ SchedulerWait

SchedSpec == SchedInit /\ [][SchedNext]_vars

----------------------------------------------------------------------------
(* Direct applications of the pure functions, one per behaviour, on every
   payload, play and clock reading *)

PlayKeys == PlayTypes \cup {""}

ProbeShouldReschedule(p, k, t) ==
  /\ probe = NoProbe
  /\ probe' = [fn |-> "ShouldReschedule", payload |-> p, lastPlay |-> k, t |-> t,
               out |-> ShouldReschedule(p, [TypeDescKey |-> k], t), err |-> FALSE,
               data |-> NilData, outData |-> NilData, body |-> InvalidJSON, decoded |-> NoPayload,
               env |-> Unset, seconds |-> 0, delay |-> 0]
  /\ UNCHANGED <<now, mode, interval, stats, discord, schedule, sched, feed, queue, inv, archived, nextId, dups, children, last, faults, sends>>

ProbeShouldSkipExecution(p, t) ==
  /\ probe = NoProbe
  /\ probe' = [fn |-> "ShouldSkipExecution", payload |-> p, lastPlay |-> "", t |-> t,
               out |-> ShouldSkipExecution(p, t).skip, err |-> ShouldSkipExecution(p, t).err,
               data |-> NilData, outData |-> NilData, body |-> InvalidJSON, decoded |-> NoPayload,
               env |-> Unset, seconds |-> 0, delay |-> 0]
  /\ UNCHANGED <<now, mode, interval, stats, discord, schedule, sched, feed, queue, inv, archived, nextId, dups, children, last, faults, sends>>

ProbeAdjustScoreForShootout(g) ==
  /\ probe = NoProbe
  /\ probe' = [fn |-> "AdjustScoreForShootout", payload |-> NoPayload, lastPlay |-> "", t |-> 0,
               out |-> FALSE, err |-> AdjustScoreForShootout(Data(g)).err,
               data |-> Data(g), outData |-> AdjustScoreForShootout(Data(g)).data,
               body |-> InvalidJSON, decoded |-> NoPayload,
               env |-> Unset, seconds |-> 0, delay |-> 0]
  /\ UNCHANGED <<now, mode, interval, stats, discord, schedule, sched, feed, queue, inv, archived, nextId, dups, children, last, faults, sends>>

\* the legal payloads: every game, with and without each optional field
Names == {NilData, Data(<<>>), Data([default |-> "Maple Leafs"])}
Teams == {Team(id, names, abbrev) : id \in {0, 10}, names \in Names, abbrev \in {"", "TOR"}}
Games ==
  {Game(id, date, start, home, away) :
     id \in GameIDs \cup {""}, date \in {"", "2025-10-08"}, start \in {NoTime, Time(1)},
     home \in Teams, away \in {ZeroTeam, Team(8, Data([default |-> "Canadiens"]), "MTL")}}
LegalPayloads == {GamePayload(g, e, n) : g \in Games, e \in ExecutionEnds, n \in ShouldNotifies}

ProbeRoundTrip(p) ==
  LET t == NewWatchGameUpdatesTask(p)
      parsed == ParseWatchGameUpdatesPayload(t)
  IN  /\ probe = NoProbe
      /\ probe' = [fn |-> "RoundTrip", payload |-> p, lastPlay |-> "", t |-> 0,
                   out |-> FALSE, err |-> parsed.err, data |-> NilData, outData |-> NilData,
                   body |-> t.body, decoded |-> parsed.payload,
                   env |-> Unset, seconds |-> 0, delay |-> 0]
      /\ UNCHANGED <<now, mode, interval, stats, discord, schedule, sched, feed, queue, inv, archived, nextId, dups, children, last, faults, sends>>

\* the values MESSAGE_INTERVAL_SECONDS is tried with: unset, no integer,
\* negative, zero, small, the default, the largest number of seconds that
\* fits a time.Duration and the next one, the largest int, and a power of two
\* in between
IntervalSeconds ==
  {-5, 0, 1, 30, DefaultMessageInterval, MaxInt \div Second, MaxInt \div Second + 1,
   2 ^ (IntBits - 2), MaxInt}
EnvValues ==
  {Unset} \cup {NoInt(r) : r \in {"", "abc"}} \cup {IntStr(n, r) : n \in IntervalSeconds, r \in {"", "s"}}

ProbeLoadConfig(env) ==
  LET seconds == MessageIntervalSeconds(env)
  IN  /\ probe = NoProbe
      /\ probe' = [NoProbe EXCEPT !.fn = "LoadConfig", !.env = env, !.seconds = seconds,
                                  !.delay = MessageInterval(seconds)]
      /\ UNCHANGED <<now, mode, interval, stats, discord, schedule, sched, feed, queue, inv, archived, nextId, dups, children, last, faults, sends>>

FnInit ==
  /\ Init
  /\ mode = "worker"
  /\ interval = 1
  /\ queue = {Task(0, InvalidJSON, 0, 0, 0)}

FnNext ==
  \/ \E p \in Payloads, k \in PlayKeys, t \in 0..MaxTime : ProbeShouldReschedule(p, k, t)
  \/ \E p \in Payloads, t \in 0..MaxTime : ProbeShouldSkipExecution(p, t)
  \/ \E g \in GoalMaps : ProbeAdjustScoreForShootout(g)
  \/ \E p \in LegalPayloads : ProbeRoundTrip(p)
  \/ \E env \in EnvValues : ProbeLoadConfig(env)

FnSpec == FnInit /\ [][FnNext]_vars

----------------------------------------------------------------------------
(* Properties *)

\* a handler invocation returned in the last step
Returned == last.result # "none"

\* the payload's executionEnd is present and an RFC3339 instant / present and not one
Parseable(p) == ~p.ExecutionEnd.nil /\ ~TimeParse(p.ExecutionEnd).err
Unparseable(p) == ~p.ExecutionEnd.nil /\ TimeParse(p.ExecutionEnd).err
EndOf(p) == TimeParse(p.ExecutionEnd).t

\* what the broker still holds or is running
Pending == queue \cup {i.task : i \in inv}

\* C1: an iteration whose last play is game-end decides not to reschedule and
\* enqueues no successor, whatever the payload's executionEnd
C1_Claim ==
  (Returned /\ last.lastPlay = "game-end") => (~last.decision /\ last.enq = 0)

\* C2 as claimed: at now = executionEnd the window is closed: the window
\* check skips the iteration and ShouldReschedule returns false
C2_Claim ==
  (Returned /\ Parseable(last.payload)) =>
     /\ last.windowAt = EndOf(last.payload) => last.skipped
     /\ last.decidedAt = EndOf(last.payload) => ~last.decision

\* C2 amended: the window is closed strictly after executionEnd and still
\* open at executionEnd: the window check skips exactly the iterations that
\* start after it, ShouldReschedule returns false after it and, at it,
\* returns true unless the play decides otherwise
C2_Amended ==
  (Returned /\ Parseable(last.payload)) =>
     /\ last.skipped <=> last.windowAt > EndOf(last.payload)
     /\ last.decidedAt > EndOf(last.payload) => ~last.decision
     /\ (last.decidedAt = EndOf(last.payload) /\ last.lastPlay # "game-end") => last.decision

C2_Witness ==
  /\ Returned
  /\ Parseable(last.payload)
  /\ last.windowAt = EndOf(last.payload)
  /\ ~last.skipped
  /\ last.decidedAt = EndOf(last.payload)
  /\ last.decision
  /\ last.enq = 1

\* C3: ShouldReschedule returns false for every payload whose executionEnd
\* is present and does not parse, whatever the last play
C3_Claim ==
  (probe.fn = "ShouldReschedule" /\ Unparseable(probe.payload)) => ~probe.out

C5_Claim ==
  (Returned /\ ~Unparseable(last.payload)) =>
     /\ last.result # "ok" => last.fault \in {"decode", "enqueue"}
     /\ (last.resp \in {"neterr", "non200", "malformed", "empty"} /\ last.fault # "enqueue")
           => last.result = "ok"

\* C6: on a non-200 status, an empty plays array or a malformed body the
\* iteration completes with an empty last play, without stats fetch or
\* notification and without crashing, and decides to reschedule while the
\* window is open
C6_Claim ==
  (Returned /\ last.resp \in {"non200", "empty", "malformed"}) =>
     /\ last.result # "panic"
     /\ last.lastPlay = ""
     /\ last.calls = <<"playbyplay">>
     /\ last.notified = 0
     /\ (last.payload.ExecutionEnd.nil \/ last.decidedAt <= EndOf(last.payload)) => last.decision

Ended == queue = {} /\ inv = {} /\ archived = {}

\* every task of the session carries a parseable executionEnd
ParseableSession ==
  \A t \in Pending \cup archived : ~Unmarshal(t.body).err /\ Parseable(Unmarshal(t.body).payload)

\* the iteration that just returned started at or after / after executionEnd
LateOrAt == Returned /\ Parseable(last.payload) /\ last.windowAt >= EndOf(last.payload)
Late == Returned /\ Parseable(last.payload) /\ last.windowAt > EndOf(last.payload)

\* C8 as claimed: a session with a parseable executionEnd ends, at the latest
\* with the first iteration delivered at or after executionEnd
C8_Claim ==
  /\ [](LateOrAt => Ended)
  /\ ParseableSession ~> Ended

\* C8 amended: a session with a parseable executionEnd ends, at the latest
\* with the first iteration delivered after executionEnd (an iteration
\* delivered at executionEnd still runs and may enqueue a successor)
C8_Amended ==
  /\ [](Late => (Ended /\ last.result = "ok"))
  /\ ParseableSession ~> Ended

C8_Witness ==
  /\ Late
  /\ Ended
  /\ last.task.id > 0

\* C9: a handler invocation that returns success has enqueued at most one
\* successor: one if it decided to reschedule, none otherwise
C9_Claim ==
  (Returned /\ last.result = "ok") =>
     /\ last.enq <= 1
     /\ last.enq = 1 <=> last.decision
     /\ Cardinality({t \in queue : t.id = nextId - 1 /\ t.retried = 0 /\ t.id # last.task.id}) = last.enq

C9_Witness ==
  /\ Returned
  /\ last.result = "ok"
  /\ last.enq = 1
  /\ last.decision

\* C10: after all deliveries of one task are handled, the deliveries have
\* together enqueued what a single delivery enqueues: at most one successor
C10_Claim ==
  \A k \in DOMAIN children : children[k] <= 1

\* the successor enqueued by the iteration that just returned
Successors == {t \in queue : t.id = nextId - 1 /\ t.retried = 0 /\ t.id # last.task.id}

C12_Claim ==
  (Returned /\ Parseable(last.payload) /\ last.windowAt > EndOf(last.payload)) =>
     /\ last.calls = <<>>
     /\ last.messages = <<>> /\ last.notified = 0
     /\ last.enq = 0
     /\ last.result = "ok" /\ last.retry = "none"
     /\ \A t \in queue \cup archived : t.id # last.task.id

C12_Witness ==
  /\ Returned
  /\ Parseable(last.payload)
  /\ last.windowAt > EndOf(last.payload)
  /\ last.skipped
  /\ last.task.retried > 0
  /\ last.result = "ok"

\* C13 as claimed: the game processor, entered after executionEnd, makes no
\* upstream call and returns {false, "window-closed"}
C13_Claim ==
  (Returned /\ Parseable(last.payload) /\ last.fetchedAt > EndOf(last.payload)) =>
     (last.calls = <<>> /\ ~last.decision /\ last.lastPlay = "window-closed")

\* C13 amended: the window check is the handler's, made before the processor
\* is entered: an iteration it skips never enters the processor. The
\* processor has no window check of its own: entered after executionEnd it
\* calls the play-by-play server first, and what it returns is false with the
\* type of the last play it fetched
C13_Amended ==
  Returned =>
     /\ last.skipped => (last.fetchedAt = -1 /\ last.calls = <<>>)
     /\ (Parseable(last.payload) /\ last.fetchedAt > EndOf(last.payload)) =>
          /\ last.calls # <<>> /\ Head(last.calls) = "playbyplay"
          /\ last.lastPlay \in PlayKeys
          /\ last.resp # "ok" => last.lastPlay = ""
          /\ last.decidedAt >= 0 => ~last.decision

C13_Witness ==
  /\ Returned
  /\ Parseable(last.payload)
  /\ last.fetchedAt > EndOf(last.payload)
  /\ last.calls = <<"playbyplay", "stats">>
  /\ last.lastPlay = "goal"
  /\ last.result = "ok"
  /\ ~last.decision

\* the stats call was made in the iteration that just returned
StatsCalled == Returned /\ last.calls = <<"playbyplay", "stats">>

\* gameData as the stats fetch of that iteration returned it
FetchedData ==
  IF last.statsErr THEN NilData
  ELSE Data([k \in DOMAIN stats \cap requiredDataKeys |-> stats[k]])

\* both goal counts are there and are the same string
TiedGoals(d) ==
  /\ Has(d, "homeTeamGoals")
  /\ Has(d, "awayTeamGoals")
  /\ Get(d, "homeTeamGoals") = Get(d, "awayTeamGoals")

\* the notifier is reached: notifications are on and a notifier is configured
NotifierReached ==
  discord /\ (IF last.payload.ShouldNotify.nil THEN TRUE ELSE last.payload.ShouldNotify.v)

\* C14: in every handler variant, an iteration whose last play is not one of
\* blocked-shot, missed-shot, shot-on-goal, goal, game-end makes no stats
\* fetch and no notifier call
C14_Claim ==
  (Returned /\ last.calls # <<>> /\ last.lastPlay \notin recomputeTypes) =>
     (last.calls = <<"playbyplay">> /\ last.notified = 0 /\ last.messages = <<>>)

\* C15: an iteration whose data map holds none of the required keys (the
\* stats fetch failed, or its row has none of them) hands no message to a
\* notifier
C15_Claim ==
  (StatsCalled /\ DOMAIN last.data.m \cap requiredDataKeys = {}) => last.messages = <<>>

\* C17: the shootout adjustment is applied only on game-end with both goal
\* counts fetched and equal; in every iteration where it is not applied the
\* data map, and the score line of each message, are as fetched
C17_Claim ==
  StatsCalled =>
     /\ last.adjust # "none" => (last.lastPlay = "game-end" /\ TiedGoals(FetchedData))
     /\ last.adjust # "done" =>
          /\ last.data = FetchedData
          /\ \A n \in DOMAIN last.messages : last.messages[n] = FormatMessage(FetchedData.m)
     /\ Len(last.messages) = (IF NotifierReached THEN 1 ELSE 0)

C17_Witness ==
  /\ StatsCalled
  /\ last.adjust = "done"
  /\ last.data # FetchedData
  /\ Len(last.messages) = 1
  /\ mode = "http"

\* C18: on game-end with tied goal counts, if a goal count or a shootout
\* goal count is no integer the adjustment fails and leaves the data map as
\* fetched, and the iteration still notifies, with the data as fetched, and
\* takes its reschedule decision
C18_Claim ==
  (/\ StatsCalled
   /\ last.lastPlay = "game-end"
   /\ TiedGoals(FetchedData)
   /\ \E k \in GoalKeys : Atoi(Get(FetchedData, k)).err) =>
     /\ last.adjust = "error"
     /\ last.data = FetchedData
     /\ Len(last.messages) = (IF NotifierReached THEN 1 ELSE 0)
     /\ \A n \in DOMAIN last.messages : last.messages[n] = FormatMessage(FetchedData.m)
     /\ last.decidedAt >= 0
     /\ last.result = "ok"

C18_Witness ==
  /\ StatsCalled
  /\ last.adjust = "error"
  /\ ~Atoi(Get(FetchedData, "homeTeamGoals")).err
  /\ Atoi(Get(FetchedData, "awayTeamShootOutGoals")).err
  /\ Len(last.messages) = 1
  /\ last.decidedAt >= 0

\* C16: on four values that parse, AdjustScoreForShootout returns no error
\* and adds 1 to the home goals if the home shootout goals are the greater,
\* 1 to the away goals if the away shootout goals are the greater, nothing
\* if they are equal; home + away goals grow by 0 or 1 and no other entry
\* changes
C16_Claim ==
  (/\ probe.fn = "AdjustScoreForShootout"
   /\ \A k \in GoalKeys : ~Atoi(Get(probe.data, k)).err) =>
     LET in(k) == Atoi(Get(probe.data, k)).n
         out(k) == Atoi(Get(probe.outData, k)).n
         dHome == out("homeTeamGoals") - in("homeTeamGoals")
         dAway == out("awayTeamGoals") - in("awayTeamGoals")
         soHome == in("homeTeamShootOutGoals")
         soAway == in("awayTeamShootOutGoals")
     IN  /\ ~probe.err
         /\ \A k \in {"homeTeamGoals", "awayTeamGoals"} : ~Atoi(Get(probe.outData, k)).err
         /\ soHome > soAway => (dHome = 1 /\ dAway = 0)
         /\ soAway > soHome => (dHome = 0 /\ dAway = 1)
         /\ soHome = soAway => (dHome = 0 /\ dAway = 0)
         /\ dHome + dAway \in {0, 1}
         /\ DOMAIN probe.outData.m = DOMAIN probe.data.m
         /\ \A k \in {"homeTeamShootOutGoals", "awayTeamShootOutGoals"} :
              Get(probe.outData, k) = Get(probe.data, k)

C16_Witness ==
  /\ probe.fn = "AdjustScoreForShootout"
  /\ ~probe.err
  /\ Atoi(Get(probe.data, "awayTeamShootOutGoals")).n > Atoi(Get(probe.data, "homeTeamShootOutGoals")).n
  /\ Get(probe.outData, "awayTeamGoals") = Itoa(Atoi(Get(probe.data, "awayTeamGoals")).n + 1)
  /\ Get(probe.outData, "homeTeamGoals") = Get(probe.data, "homeTeamGoals")

\* C19: an iteration whose stats fetch fails is successful unless the
\* enqueue fails, and decides as usual: with the window open and a last play
\* other than game-end it enqueues exactly one successor
C19_Claim ==
  (StatsCalled /\ last.statsErr /\ last.fault # "enqueue") =>
     /\ last.result = "ok"
     /\ last.retry = "none"
     /\ (/\ last.lastPlay # "game-end"
         /\ last.payload.ExecutionEnd.nil \/ last.decidedAt <= EndOf(last.payload)) =>
           (last.decision /\ last.enq = 1 /\ Cardinality(Successors) = 1)

C19_Witness ==
  /\ StatsCalled
  /\ last.statsErr
  /\ last.lastPlay = "goal"
  /\ last.result = "ok"
  /\ last.enq = 1
  /\ last.messages # <<>>

\* C20: a failed successor enqueue makes the invocation fail, and the broker
\* holds the same task for redelivery after the backoff delay; once MaxRetry
\* retries are used up it archives the task
C20_Claim ==
  (Returned /\ last.fault = "enqueue") =>
     /\ last.result \in EnqueueFailures
     /\ last.enq = 0
     /\ last.retry = IF last.task.retried < MaxRetry THEN "retry" ELSE "archived"
     /\ last.retry = "retry" =>
          \E t \in queue : /\ t.id = last.task.id
                           /\ t.body = last.task.body
                           /\ t.retried = last.task.retried + 1
                           /\ t.deliverAt = last.decidedAt + RetryDelayFunc(last.task.retried)
     /\ last.retry = "archived" => last.task \in archived

C20_Witness ==
  /\ Returned
  /\ last.fault = "enqueue"
  /\ last.result = "error"
  /\ last.retry = "retry"
  /\ last.task.retried = 1
  /\ mode = "worker"

\* the handler invocations in flight and the one that just returned
Invocations == inv \cup (IF Returned THEN {last} ELSE {})

\* C21: a successor is enqueued due one messageInterval after the instant of
\* the enqueue, and no handler starts on a successor, on its first delivery
\* or on a retry, earlier than one messageInterval after it was enqueued
C21_Claim ==
  /\ (Returned /\ last.enq = 1) =>
        \A t \in Successors : t.enqueuedAt = last.decidedAt /\ t.deliverAt = last.decidedAt + interval
  /\ \A t \in queue : t.id > 0 => t.deliverAt >= t.enqueuedAt + interval
  /\ \A i \in Invocations : i.task.id > 0 => i.started >= i.task.enqueuedAt + interval

C21_Witness ==
  /\ Returned
  /\ last.task.id > 1
  /\ last.started = last.task.enqueuedAt + interval
  /\ interval = MaxInterval
  /\ last.enq = 1

\* C22: the notifier is called in an iteration only if the payload's
\* shouldNotify is true or absent, and an iteration with shouldNotify absent
\* notifies exactly as one with shouldNotify true; with shouldNotify false
\* no notifier call is made, whatever the play
C22_Claim ==
  Returned =>
     LET n == last.payload.ShouldNotify
     IN  /\ last.notified > 0 => (n.nil \/ n.v)
         /\ (~n.nil /\ ~n.v) => (last.notified = 0 /\ last.messages = <<>>)
         /\ (StatsCalled /\ (n.nil \/ n.v)) =>
               /\ last.messages = SendGameEventNotifications(TRUE, IF discord THEN 1 ELSE 0, last.data)
               /\ last.notified = (IF discord THEN 1 ELSE 0)

C22_Witness ==
  /\ StatsCalled
  /\ last.payload.ShouldNotify = PtrBool(FALSE)
  /\ last.lastPlay = "goal"
  /\ last.notified = 0
  /\ last.result = "ok"

\* the number of calls of one kind in a sequence of upstream calls
CallsTo(calls, k) == Cardinality({n \in DOMAIN calls : calls[n] = k})

\* C23: the upstream calls of one handler invocation are made one after the
\* other: the stats call is made only after the play-by-play call has
\* returned (with a play that asks for it), and at most one play-by-play
\* call and one stats call are made
C23_Claim ==
  \A i \in Invocations :
     /\ i.calls \in {<<>>, <<"playbyplay">>, <<"playbyplay", "stats">>}
     /\ CallsTo(i.calls, "stats") <= 1
     /\ CallsTo(i.calls, "stats") = 1 =>
          /\ i.calls[1] = "playbyplay"
          /\ i.resp = "ok"
          /\ i.lastPlay \in RecomputeTypesOf(mode)
     /\ i.pc = "fetch" => i.calls = <<>>
     /\ i.pc = "stats" => i.calls = <<"playbyplay">>

C23_Witness ==
  /\ Returned
  /\ last.calls = <<"playbyplay", "stats">>
  /\ last.lastPlay = "game-end"
  /\ mode = "worker"
  /\ last.started < now

\* the Enqueue calls the scheduler made in the run for the game at index n
CallsFor(run, n) == {k \in DOMAIN run.calls : run.calls[k].index = n}

\* the start time of a game is an RFC3339 instant
Startable(game) == ~TimeParse(game.StartTimeUTC).err

\* C24: every Enqueue call of a scheduler run is made for a game of the
\* fetched schedule with a payload that carries that game, executionEnd = the
\* game's start time + gameMaxDuration and shouldNotify = the configured
\* value, and with deliverAt = the game's start time; the task of a call that
\* succeeded is in the queue with that payload and that delivery time
C24_Claim ==
  \A k \in DOMAIN sched.run.calls :
     LET c == sched.run.calls[k]
         game == sched.run.games[c.index]
         startTime == TimeParse(game.StartTimeUTC).t
     IN  /\ c.payload.Game.ID = Itoa(game.ID)
         /\ c.payload.Game.StartTime = game.StartTimeUTC
         /\ c.payload.ExecutionEnd = TimeStr(startTime + sched.gameMaxDuration)
         /\ c.payload.ShouldNotify = PtrBool(sched.shouldNotify)
         /\ c.deliverAt = startTime
         /\ c.ok => \E t \in queue :
                      /\ Unmarshal(t.body) = [err |-> FALSE, payload |-> c.payload]
                      /\ t.deliverAt = startTime

C24_Witness ==
  /\ sched.pc = "done"
  /\ sched.run.result = "ok"
  /\ schedule.source = "http"
  /\ now < MaxEnd
  /\ \E k \in DOMAIN sched.run.calls : sched.run.calls[k].ok
  /\ \E t \in queue : t.deliverAt = MaxEnd /\ t.enqueuedAt = 0

\* C25: a scheduler run that has returned made exactly one Enqueue call for
\* each game of the fetched schedule whose gameState is "FUT", and none for
\* a game in another state
C25_Claim ==
  (sched.pc = "done" /\ sched.run.result = "ok") =>
     \A n \in DOMAIN sched.run.games :
        Cardinality(CallsFor(sched.run, n)) = (IF sched.run.games[n].GameState = "FUT" THEN 1 ELSE 0)

\* C25, amended: a run that has returned made exactly one Enqueue call for
\* each fetched game that is "FUT" and whose startTimeUTC is an RFC3339
\* instant, and none for any other game: a "FUT" game whose start time does
\* not parse is skipped like a game in another state; during the run the
\* games the loop has passed have their calls and the others have none
C25_Amended ==
  /\ sched.pc \in {"loop", "done"} =>
       \A n \in DOMAIN sched.run.games :
          Cardinality(CallsFor(sched.run, n)) =
            (IF n < sched.run.idx /\ sched.run.games[n].GameState = "FUT" /\ Startable(sched.run.games[n])
             THEN 1 ELSE 0)
  /\ (sched.pc = "done" /\ sched.run.result = "ok" /\ sched.run.games # <<>>) =>
       sched.run.idx = Len(sched.run.games) + 1
  /\ \A k \in DOMAIN sched.run.calls : sched.run.calls[k].index \in DOMAIN sched.run.games

C25_Witness ==
  /\ sched.pc = "done"
  /\ sched.run.result = "ok"
  /\ schedule.source = "http"
  /\ Len(sched.run.games) = MaxGames
  /\ sched.run.games[1].GameState = "FUT" /\ ~Startable(sched.run.games[1])
  /\ sched.run.games[MaxGames].GameState = "FUT" /\ Startable(sched.run.games[MaxGames])
  /\ Len(sched.run.calls) = 1

\* C26: a failed Enqueue does not end the scheduler run: every later game of
\* the schedule that is "FUT" with a start time that parses is still
\* attempted, and the run returns without error
C26_Claim ==
  /\ (sched.pc = "done" /\ ~sched.run.fetchErr) => sched.run.result = "ok"
  /\ sched.pc = "done" =>
       \A k \in DOMAIN sched.run.calls :
          ~sched.run.calls[k].ok =>
             \A n \in (sched.run.calls[k].index + 1)..Len(sched.run.games) :
                (sched.run.games[n].GameState = "FUT" /\ Startable(sched.run.games[n])) =>
                   \E j \in DOMAIN sched.run.calls : j > k /\ sched.run.calls[j].index = n
  /\ sched.pc = "loop" => \A k \in DOMAIN sched.run.calls : sched.run.calls[k].index < sched.run.idx

C26_Witness ==
  /\ sched.pc = "done"
  /\ sched.run.result = "ok"
  /\ Len(sched.run.calls) >= 2
  /\ ~sched.run.calls[1].ok
  /\ sched.run.calls[2].ok
  /\ Cardinality(queue) = 1

\* C27: a schedule fetch that fails ends the scheduler run: Run returns an
\* error, makes no Enqueue call and leaves no task in the queue
C27_Claim ==
  /\ sched.run.fetchErr =>
       /\ sched.pc = "done"
       /\ sched.run.result = "error"
       /\ sched.run.calls = <<>>
       /\ queue = {}
  /\ sched.run.result = "error" => sched.run.fetchErr

C27_Witness ==
  /\ sched.pc = "done"
  /\ sched.run.fetchErr
  /\ sched.run.result = "error"
  /\ queue = {}
  /\ \E n \in DOMAIN schedule.gameWeek :
        \E g \in DOMAIN schedule.gameWeek[n].Games :
           /\ schedule.gameWeek[n].Date = sched.date
           /\ schedule.gameWeek[n].Games[g].GameState = "FUT"
           /\ Startable(schedule.gameWeek[n].Games[g])

\* the instant the file fetcher of a run at instant t gives game n of the file
FileStart(t, n) == t + FileStartLead + FileStartStep * (n - 1)

\* C28: when the schedule comes from a file, a run that returned with no
\* Enqueue refused has enqueued every game of the file, whatever gameState
\* the file records for it, with the start time now + 60 s + 10 s * index
C28_Claim ==
  (/\ schedule.source = "file"
   /\ sched.pc = "done"
   /\ sched.run.result = "ok"
   /\ \A k \in DOMAIN sched.run.calls : sched.run.calls[k].ok) =>
     /\ Len(sched.run.games) = Len(AllGames(schedule.gameWeek))
     /\ \A n \in DOMAIN sched.run.games :
          /\ sched.run.games[n].StartTimeUTC = Time(FileStart(sched.run.at, n))
          /\ \E k \in DOMAIN sched.run.calls :
               /\ sched.run.calls[k].index = n
               /\ sched.run.calls[k].deliverAt = FileStart(sched.run.at, n)
               /\ sched.run.calls[k].payload.Game.StartTime = Time(FileStart(sched.run.at, n))
          /\ \E t \in queue :
               /\ Unmarshal(t.body).payload.Game.ID = Itoa(sched.run.games[n].ID)
               /\ t.deliverAt = FileStart(sched.run.at, n)

\* what the Enqueue calls of a run put in the queue: payloads and delivery times
Enqueued(run) ==
  {[payload |-> run.calls[k].payload, deliverAt |-> run.calls[k].deliverAt] : k \in DOMAIN run.calls}

\* an enqueued task with its start time, executionEnd and delivery time d later
Later(e, d) ==
  [payload |-> [e.payload EXCEPT !.Game.StartTime = Time(@.instant + d),
                                 !.ExecutionEnd = TimeStr(@.instant + d)],
   deliverAt |-> e.deliverAt + d]

\* the scheduler has run twice on the schedule, each time on an empty queue,
\* and neither run met a fetch error or a refused Enqueue
RanTwice ==
  /\ sched.pc = "done"
  /\ sched.runs >= 1
  /\ sched.run.result = "ok" /\ sched.prev.result = "ok"
  /\ \A k \in DOMAIN sched.run.calls : sched.run.calls[k].ok
  /\ \A k \in DOMAIN sched.prev.calls : sched.prev.calls[k].ok

C30_Claim ==
  probe.fn = "RoundTrip" =>
     /\ ~probe.err
     /\ probe.decoded = probe.payload
     /\ probe.decoded.Game = probe.payload.Game
     /\ probe.payload.ExecutionEnd.nil <=> "execution_end" \notin DOMAIN probe.body
     /\ probe.payload.ShouldNotify.nil <=> "should_notify" \notin DOMAIN probe.body
     /\ probe.payload.ExecutionEnd.nil => probe.decoded.ExecutionEnd.nil
     /\ probe.payload.ShouldNotify.nil => probe.decoded.ShouldNotify.nil

C30_Witness ==
  /\ probe.fn = "RoundTrip"
  /\ probe.payload.ShouldNotify = PtrBool(FALSE)
  /\ probe.payload.ExecutionEnd.nil
  /\ probe.payload.Game.HomeTeam.CommonName = Data(<<>>)
  /\ probe.decoded = probe.payload

\* C36: a handler invocation that reports a failure to the broker has
\* enqueued no successor, so that the broker's retries of a task never fork
\* the chain: on a broker that delivers every task once per attempt, at most
\* one task of the session is pending or in flight at any time
C36_Claim ==
  /\ (Returned /\ last.result # "ok") =>
        /\ last.enq = 0
        /\ Successors = {}
        /\ children[last.task.id] = 0
  /\ Cardinality({t.id : t \in Pending}) <= 1
  /\ Cardinality(queue) + Cardinality(inv) <= 1
  /\ \A k \in DOMAIN children : children[k] <= 1

C36_Witness ==
  /\ Returned
  /\ last.result = "error"
  /\ last.fault = "enqueue"
  /\ last.decision
  /\ last.retry = "retry"
  /\ last.task.id > 0
  /\ Cardinality(queue) = 1
  /\ \E t \in queue : t.id = last.task.id /\ t.retried = last.task.retried + 1

\* the delay the broker puts before the retry that follows the n-th failure
\* grows with n
BackoffIncreases == \A n \in 0..(MaxRetry - 2) : RetryDelayFunc(n) < RetryDelayFunc(n + 1)

\* the tasks the broker has given up on are not the task t
DeadOthers(t) == {a \in archived : a.id # t.id}

WellFormed(p) == p.Game.ID # "" /\ (~p.ExecutionEnd.nil => ~TimeParse(p.ExecutionEnd).err)

\* C33: every payload the handler processes (it went past the decoding and
\* the window check) and every payload a handler enqueued has a non-empty
\* game.id and an executionEnd that, when present, is an RFC3339 instant
C33_Claim ==
  /\ \A i \in inv : WellFormed(i.payload)
  /\ (Returned /\ last.calls # <<>>) => WellFormed(last.payload)
  /\ \A t \in queue : t.id > 0 => (~Unmarshal(t.body).err /\ WellFormed(Unmarshal(t.body).payload))

\* what the worker's handler does on a payload when the play-by-play call
\* gives lastPlay and the decision is taken at instant t: its upstream
\* calls, its notifier calls and its successor decision
PullOutcome(payload, lastPlay, t) ==
  [calls |-> IF lastPlay \in recomputeTypes THEN <<"playbyplay", "stats">> ELSE <<"playbyplay">>,
   notified |-> IF lastPlay \in recomputeTypes /\ NotificationFlag(payload) /\ discord THEN 1 ELSE 0,
   decision |-> ShouldReschedule(payload, [TypeDescKey |-> lastPlay], t)]

\* C38: on the same payload, clock and upstream responses every handler, the
\* one the Cloud Tasks queue pushes to as well as the one that pulls from
\* Redis, makes the upstream calls and the notifier calls of the worker's
\* handler and takes its successor decision
C38_Claim ==
  (Returned /\ last.decidedAt >= 0) =>
     LET o == PullOutcome(last.payload, last.lastPlay, last.decidedAt)
     IN  /\ last.calls = o.calls
         /\ last.notified = o.notified
         /\ last.decision = o.decision
         /\ last.enq = (IF o.decision THEN 1 ELSE 0)

\* the variable is unset, or no integer can be read from it, or the integer
\* read is zero or negative
NoPositiveInterval(env) == ~env.set \/ Sscanf(env).err \/ Sscanf(env).intVal <= 0

\* C34: the effective message interval is a strictly positive number of
\* seconds, the default 60 when MESSAGE_INTERVAL_SECONDS is unset, holds no
\* integer, or holds zero or a negative one; and the delay a successor is
\* enqueued with, that number of seconds as a time.Duration, is never zero
\* or less
C34_Claim ==
  probe.fn = "LoadConfig" =>
     /\ probe.seconds > 0
     /\ NoPositiveInterval(probe.env) => probe.seconds = DefaultMessageInterval
     /\ ~NoPositiveInterval(probe.env) => probe.seconds = probe.env.n
     /\ probe.delay > 0

\* no task is pending or in flight: the chain of successors has come to its end
ChainOver == queue = {} /\ inv = {}

\* the iteration that just returned had a payload without executionEnd and
\* reached its reschedule decision
WindowlessDecided == Returned /\ last.decidedAt >= 0 /\ last.payload.ExecutionEnd.nil

\* the iteration that just returned decided to reschedule although the
\* session had already used every task the model has room for: the chain is
\* longer than MaxTasks
ChainOutgrown ==
  /\ Returned
  /\ last.decidedAt >= 0
  /\ last.decision
  /\ nextId >= MaxTasks

\* C39 as claimed: every session the worker accepts terminates, also one
\* whose payload has no executionEnd and whose play-by-play never reports
\* game-end: its chain of successors comes to an end, which within the model
\* is before it has outgrown MaxTasks tasks, as the chain of every session
\* with a parseable executionEnd does whatever MaxTasks is raised to
C39_Claim == ~ChainOutgrown

\* C39 amended: without executionEnd only a game-end play ends the chain. An
\* iteration of such a session is never skipped, it decides to reschedule
\* exactly when its last play is not game-end, and when it then returns
\* success it has enqueued one successor carrying the same payload, again
\* without executionEnd; the session ends once an iteration sees game-end
C39_Amended ==
  /\ (Returned /\ last.windowAt >= 0 /\ last.payload.ExecutionEnd.nil) => ~last.skipped
  /\ WindowlessDecided =>
        /\ last.decision = (last.lastPlay # "game-end")
        /\ (last.decision /\ last.result = "ok") =>
              /\ Successors # {}
              /\ \A t \in Successors : Unmarshal(t.body).payload = last.payload
        /\ (~last.decision /\ last.result = "ok") => ChainOver

C39_Witness ==
  /\ WindowlessDecided
  /\ last.task.id >= 2
  /\ last.lastPlay = "hit"
  /\ last.result = "ok"
  /\ Successors # {}

\* C31: handler completion never waits on a notification result. Whatever
\* its notification goroutines are doing, a handler that has notified can
\* take its reschedule decision and return; the wait for the result runs in
\* the goroutine, ends with the result or with the timeout of its context,
\* and can end as soon as that timeout has passed
C31_Claim ==
  /\ \A i \in inv : i.pc = "decide" => ENABLED ProcessDecide(i)
  /\ \A g \in sends.g :
        /\ g.pc = "spawned" => (g.armedAt = -1 /\ g.inner = "none")
        /\ (g.pc = "waiting" /\ now >= g.armedAt + NotifyTimeout) => ENABLED SendTimeout(g)
        /\ g.pc = "timeout" => now >= g.armedAt + NotifyTimeout
        /\ g.pc = "done" => g.inner = "sent"
        /\ g.returned => g.task \notin {i.task.id : i \in inv}

\* the handler has returned while the wait for the result of its notification
\* was still going on, and the wait then reached its timeout with no result
C31_Witness ==
  \E g \in sends.g :
     /\ g.returned
     /\ g.pc = "waiting"
     /\ g.inner = "running"
     /\ now >= g.armedAt + NotifyTimeout

\* C35: a notification dispatched during an iteration is sent on an open
\* notifier session: the Close of the notification service that the handler
\* deferred takes effect only once the send has completed or timed out
C35_Claim ==
  \A g \in sends.g :
     /\ g.inner = "sent" => ~g.onClosed
     /\ g.closed => (g.inner = "sent" \/ g.pc = "timeout")

\* the goroutines that carry the final score: dispatched for a game-end play
\* by an iteration that is no duplicate delivery and no retry
FinalScores == {g \in sends.g : g.key = "game-end" /\ g.dup = 0 /\ g.retried = 0}

\* no task has been delivered twice or retried
NoDuplicateNoRetry ==
  /\ dups = 0
  /\ \A t \in Pending \cup archived : t.retried = 0
  /\ \A g \in sends.g : g.dup = 0 /\ g.retried = 0

\* C37: in a session without duplicate deliveries or retries at most one
\* iteration observes a game-end play, so that at most one final-score
\* notification is dispatched for the game
C37_Claim ==
  NoDuplicateNoRetry => Cardinality({g.task : g \in FinalScores}) <= 1

====
